---- MODULE Spec2Model ----
(***************************************************************************)
(* Model of the proxy layer of legacy-facade: the ProxyConfig store        *)
(* (services/proxy_config_manager.py) and the request forwarder            *)
(* (services/proxy_forwarder.py) with the helpers it calls                 *)
(* (utils/path_resolver.py, utils/response_unwrapper.py,                   *)
(* services/field_mapper.py, utils/error_normalizer.py,                    *)
(* services/soap_request_builder.py).                                      *)
(*                                                                         *)
(* Spec        the application as it runs: FastAPI `async def` handlers on *)
(*             one event loop.  Code between two awaits is one step; the   *)
(*             only await of forward_request is the outbound call.         *)
(* SpecThreads the store driven from several threads, statement by         *)
(*             statement, as its class docstring ("Thread-safe             *)
(*             operations") allows.                                        *)
(***************************************************************************)
EXTENDS Integers, Sequences, FiniteSets, TLC

VARIABLES
    cache,       \* ProxyConfigManager._cache: None or Some(ProxyConfig)
    file,        \* the JSON file at storage_path: absent, partial or full
    lastSet,     \* history: argument of the last completed set_config, None after a clear_config
    got,         \* what the last get_config / is_configured handler returned
    pc,          \* position of the forward_request call: idle, awaiting, done
    args,        \* its arguments (resource, operation, id, body, query_params)
    setAtStart,  \* history: lastSet when the call started
    cfgUsed,     \* local `config` of forward_request
    rcUsed,      \* local `resource_config` of forward_request
    request,     \* the outbound request handed to httpx
    sent,        \* number of outbound requests of this call
    backendReply, \* what the legacy backend answered
    result,      \* what forward_request gave its caller
    th,          \* SpecThreads: per-thread position and locals
    quiet,       \* SpecThreads history: a clear_config completed and no set_config ran since
    fnIn,        \* the helper specifications: the arguments of the function under study
    fnOut,       \* its locals and what it returned or raised
    fnPc         \* its position

vars == <<cache, file, lastSet, got, pc, args, setAtStart, cfgUsed, rcUsed,
          request, sent, backendReply, result, th, quiet, fnIn, fnOut, fnPc>>

storeVars == <<cache, file, lastSet>>
callVars == <<pc, args, setAtStart, cfgUsed, rcUsed, request, sent, backendReply, result>>
threadVars == <<th, quiet>>
fnVars == <<fnIn, fnOut, fnPc>>

-----------------------------------------------------------------------------
(* Optional values (Python None / a value) *)

None == [some |-> FALSE]
Some(x) == [some |-> TRUE, v |-> x]

Min(S) == CHOOSE x \in S : \A y \in S : x <= y
Max(S) == CHOOSE x \in S : \A y \in S : x >= y

-----------------------------------------------------------------------------
(* JSON values.  A dict keeps its insertion order, as a Python dict does:  *)
(* a sequence of [k, v] items with distinct keys.                          *)

JScalar(s) == [t |-> "scalar", s |-> s]
JList(items) == [t |-> "list", items |-> items]
JDict(items) == [t |-> "dict", items |-> items]
Item(key, val) == [k |-> key, v |-> val]

Keys(d) == {d.items[i].k : i \in 1..Len(d.items)}
DictGet(d, key) == d.items[CHOOSE i \in 1..Len(d.items) : d.items[i].k = key].v
DictPut(items, key, val) ==
    IF \E i \in 1..Len(items) : items[i].k = key
    THEN [i \in 1..Len(items) |-> IF items[i].k = key THEN Item(key, val) ELSE items[i]]
    ELSE Append(items, Item(key, val))

-----------------------------------------------------------------------------
(* utils/response_unwrapper.py *)

max_depth == 10

wrapper_keys == <<"data", "Data", "result", "Result", "results", "Results",
                  "items", "Items", "response", "Response", "payload", "Payload">>

\* A dict may hold a reference to the dict unwrap_response was called with
\* (a self-referential input): [t |-> "ref"], which is that dict.
JRef == [t |-> "ref"]
Deref(value, root) == IF value.t = "ref" THEN root ELSE value
IsContainer(x) == x.t \in {"list", "dict", "ref"}

\* One pass of the while loop on a dict: the value to descend into, if any:
\* the sole value of a single-key dict, else the value of the first wrapper
\* key that holds a list or dict.
UnwrapStep(current, root) ==
    IF current.t # "dict" THEN None
    ELSE IF Len(current.items) = 1 /\ IsContainer(current.items[1].v)
    THEN Some(Deref(current.items[1].v, root))
    ELSE LET hits == {i \in 1..Len(wrapper_keys) :
                         /\ wrapper_keys[i] \in Keys(current)
                         /\ IsContainer(DictGet(current, wrapper_keys[i]))}
         IN IF hits = {} THEN None
            ELSE Some(Deref(DictGet(current, wrapper_keys[Min(hits)]), root))

\* mutant of UnwrapLoop: the loop stops after five descents
RECURSIVE UnwrapLoop_shallow(_, _, _)
UnwrapLoop_shallow(current, depth, root) ==
    IF current.t # "dict" \/ depth >= 5 THEN current
    ELSE IF UnwrapStep(current, root).some
         THEN UnwrapLoop_shallow(UnwrapStep(current, root).v, depth + 1, root)
         ELSE current

\* the while loop of unwrap_response
RECURSIVE UnwrapLoop(_, _, _)
UnwrapLoop(current, depth, root) ==
    IF current.t # "dict" \/ depth >= max_depth THEN current
    ELSE IF UnwrapStep(current, root).some
         THEN UnwrapLoop(UnwrapStep(current, root).v, depth + 1, root)
         ELSE current

unwrap_response(response_data) ==
    IF response_data.t # "dict" THEN response_data
    ELSE UnwrapLoop(response_data, 0, response_data)

\* unwrap_by_path is imported by the forwarder but defined nowhere in the
\* sources; the specification gives it as a dot-separated key descent.  The
\* path is the sequence of its keys.  A key that cannot be followed ends the
\* descent with [ok |-> FALSE]; what the function does then is not known.
RECURSIVE unwrap_by_path(_, _)
unwrap_by_path(data, path) ==
    IF path = <<>> THEN [ok |-> TRUE, v |-> data]
    ELSE IF data.t = "dict" /\ Head(path) \in Keys(data)
         THEN unwrap_by_path(DictGet(data, Head(path)), Tail(path))
    ELSE [ok |-> FALSE]

-----------------------------------------------------------------------------
(* services/field_mapper.py *)

\* mapping_dict.get(key, key): the dict comprehension keeps the last entry
\* of a repeated source name.
MapKey(field_mappings, reverse, key) ==
    LET src(fm) == IF reverse THEN fm.legacyName ELSE fm.normalizedName
        dst(fm) == IF reverse THEN fm.normalizedName ELSE fm.legacyName
        hits == {i \in 1..Len(field_mappings) : src(field_mappings[i]) = key}
    IN IF hits = {} THEN key ELSE dst(field_mappings[Max(hits)])

RECURSIVE MapItems(_, _, _, _)
MapItems(items, field_mappings, reverse, mapped_record) ==
    IF items = <<>> THEN mapped_record
    ELSE MapItems(Tail(items), field_mappings, reverse,
                  DictPut(mapped_record,
                          MapKey(field_mappings, reverse, Head(items).k),
                          Head(items).v))

\* _map_single_record: record.items() exists only on a dict (AttributeError
\* otherwise).
map_single_record(record, field_mappings, reverse) ==
    IF record.t = "dict"
    THEN [ok |-> TRUE, v |-> JDict(MapItems(record.items, field_mappings, reverse, <<>>))]
    ELSE [ok |-> FALSE]

\* map_fields(data, field_mappings, reverse); field_mappings is an optional
\* sequence of [normalizedName, legacyName].
map_fields(data, field_mappings, reverse) ==
    IF ~field_mappings.some \/ field_mappings.v = <<>> THEN [ok |-> TRUE, v |-> data]
    ELSE IF data.t = "list"
         THEN IF \A i \in 1..Len(data.items) : data.items[i].t = "dict"
              THEN [ok |-> TRUE,
                    v |-> JList([i \in 1..Len(data.items) |->
                             map_single_record(data.items[i], field_mappings.v, reverse).v])]
              ELSE [ok |-> FALSE]
    ELSE map_single_record(data, field_mappings.v, reverse)

-----------------------------------------------------------------------------
(* utils/path_resolver.py.  A path is a sequence of tokens; the tokens     *)
(* "{id}" and "{orderId}" are the placeholders the regex \{(\w+)\} finds.  *)

ParamName(tok) ==
    IF tok = "{id}" THEN "id" ELSE IF tok = "{orderId}" THEN "orderId" ELSE ""

param_names(path_template) ==
    {ParamName(path_template[i]) : i \in 1..Len(path_template)} \ {""}

\* mutant of resolve_path: a placeholder without a value is left in place
resolve_path_lenient(path_template, params) ==
    [ok |-> TRUE,
     path |-> [i \in 1..Len(path_template) |->
                  IF ParamName(path_template[i]) \in DOMAIN params
                  THEN params[ParamName(path_template[i])]
                  ELSE path_template[i]]]

\* re.findall: the names in order of appearance
RECURSIVE found_names(_)
found_names(path_template) ==
    IF path_template = <<>> THEN <<>>
    ELSE (IF ParamName(Head(path_template)) # "" THEN <<ParamName(Head(path_template))>>
          ELSE <<>>) \o found_names(Tail(path_template))

\* str.replace(placeholder, value) for one name after the other: a value put
\* in by an earlier replace is text a later replace looks at
RECURSIVE ReplaceEach(_, _, _)
ReplaceEach(resolved_path, names, params) ==
    IF names = <<>> THEN resolved_path
    ELSE ReplaceEach([i \in 1..Len(resolved_path) |->
                         IF ParamName(resolved_path[i]) = Head(names)
                         THEN params[Head(names)]
                         ELSE resolved_path[i]],
                     Tail(names), params)

\* params is a function from parameter names to values.
resolve_path(path_template, params) ==
    IF \E n \in param_names(path_template) : n \notin DOMAIN params
    THEN [ok |-> FALSE]
    ELSE [ok |-> TRUE,
          path |-> ReplaceEach(path_template, found_names(path_template), params)]

\* str.rstrip('/'): every trailing "/" goes.
RECURSIVE rstrip_slash(_)
rstrip_slash(s) ==
    IF s # <<>> /\ s[Len(s)] = "/" THEN rstrip_slash(SubSeq(s, 1, Len(s) - 1)) ELSE s

-----------------------------------------------------------------------------
(* utils/error_normalizer.py: the code and status of the normalized body.  *)
(* A response body is [json |-> TRUE, v |-> value] or                      *)
(* [json |-> FALSE, text |-> string].                                      *)

ErrBody(code, status) == [isError |-> TRUE, code |-> code, status |-> status]
DataBody(data) == [isError |-> FALSE, data |-> data]

HtmlTexts == {"<html>oops</html>", "<HTML>"}

\* mutant of normalize_error: status 404 has no branch of its own
normalize_error_without_404(status_code, response_body) ==
    IF \/ ~response_body.json /\ response_body.text \in HtmlTexts
       \/ response_body.json /\ response_body.v.t = "scalar" /\ response_body.v.s \in HtmlTexts
    THEN ErrBody("INVALID_RESPONSE", status_code)
    ELSE IF status_code = 405 THEN ErrBody("OPERATION_NOT_SUPPORTED", 405)
    ELSE IF status_code \in {401, 403} THEN ErrBody("AUTH_ERROR", status_code)
    ELSE IF status_code >= 500 THEN ErrBody("BACKEND_ERROR", status_code)
    ELSE ErrBody("UNKNOWN_ERROR", status_code)

\* mutant of normalize_error: an HTML body is reported with status 500
normalize_error_html_as_500(status_code, response_body) ==
    IF \/ ~response_body.json /\ response_body.text \in HtmlTexts
       \/ response_body.json /\ response_body.v.t = "scalar" /\ response_body.v.s \in HtmlTexts
    THEN ErrBody("INVALID_RESPONSE", 500)
    ELSE IF status_code = 404 THEN ErrBody("NOT_FOUND", 404)
    ELSE IF status_code = 405 THEN ErrBody("OPERATION_NOT_SUPPORTED", 405)
    ELSE IF status_code \in {401, 403} THEN ErrBody("AUTH_ERROR", status_code)
    ELSE IF status_code >= 500 THEN ErrBody("BACKEND_ERROR", status_code)
    ELSE ErrBody("UNKNOWN_ERROR", status_code)

\* the HTML test applies to any str body: the text of a reply that is not
\* JSON, or a JSON string
normalize_error(status_code, response_body) ==
    IF \/ ~response_body.json /\ response_body.text \in HtmlTexts
       \/ response_body.json /\ response_body.v.t = "scalar" /\ response_body.v.s \in HtmlTexts
    THEN ErrBody("INVALID_RESPONSE", status_code)
    ELSE IF status_code = 404 THEN ErrBody("NOT_FOUND", 404)
    ELSE IF status_code = 405 THEN ErrBody("OPERATION_NOT_SUPPORTED", 405)
    ELSE IF status_code \in {401, 403} THEN ErrBody("AUTH_ERROR", status_code)
    ELSE IF status_code >= 500 THEN ErrBody("BACKEND_ERROR", status_code)
    ELSE ErrBody("UNKNOWN_ERROR", status_code)

normalize_timeout_error == ErrBody("BACKEND_UNAVAILABLE", 503)
normalize_connection_error == ErrBody("CONNECTION_ERROR", 503)
normalize_soap_fault(fault_code) ==
    [isError |-> TRUE, code |-> "SOAP_FAULT", status |-> 500, soapFaultCode |-> fault_code]

-----------------------------------------------------------------------------
(* models/proxy_models.py: the configurations the operator may set.        *)

RestOp(method, path) == [rest |-> Some([method |-> method, path |-> path]), soap |-> None]
SoapOp(name, action) ==
    [rest |-> None, soap |-> Some([operationName |-> name, soapAction |-> action])]
FieldMapping(normalized, legacy) == [normalizedName |-> normalized, legacyName |-> legacy]

Resource(name, endpoint, operations, fieldMappings, responsePath, primaryKey) ==
    [name |-> name, endpoint |-> endpoint, operations |-> operations,
     fieldMappings |-> fieldMappings, responsePath |-> responsePath,
     primaryKey |-> primaryKey]

ProxyConfig(baseUrl, apiType, resources, soapNamespace) ==
    [baseUrl |-> baseUrl, apiType |-> apiType, resources |-> resources,
     soapNamespace |-> soapNamespace]

NoOperations == [op \in {} |-> RestOp("GET", <<>>)]
CustMappings == Some(<<FieldMapping("customer_id", "CUST_ID")>>)

\* REST, every operation by the heuristic table, field mappings, no responsePath
UsersA == Resource("users", <<"/users">>, NoOperations, CustMappings, None, None)

\* REST, explicit operations (one outside the CRUD vocabulary, one with a
\* second placeholder, one with a SOAP variant only), responsePath "data"
OrdersA ==
    Resource("orders", <<"/orders">>,
             [op \in {"detail", "archive", "update", "list"} |->
                 IF op = "detail" THEN RestOp("GET", <<"/v1/orders/", "{id}">>)
                 ELSE IF op = "archive" THEN RestOp("POST", <<"/orders/", "{id}", "/archive">>)
                 ELSE IF op = "update"
                      THEN RestOp("PATCH", <<"/users/", "{id}", "/orders/", "{orderId}">>)
                 ELSE SoapOp("GetOrders", "urn:GetOrders")],
             None, Some(<<"data">>), None)

\* REST, the same resource name as UsersA under another endpoint
UsersB == Resource("users", <<"/people">>, NoOperations, None, None, None)

\* SOAP, primaryKey set
UsersS ==
    Resource("users", <<"/ignored">>,
             [op \in {"list", "detail", "archive", "create"} |->
                 IF op = "list" THEN SoapOp("GetUsers", "urn:GetUsers")
                 ELSE IF op = "detail" THEN SoapOp("GetUser", "urn:GetUser")
                 ELSE IF op = "archive" THEN SoapOp("ArchiveUser", "urn:ArchiveUser")
                 ELSE RestOp("POST", <<"/users">>)],
             CustMappings, None, Some("user_id"))

\* SOAP, no primaryKey
OrdersS ==
    Resource("orders", <<"/ignored">>,
             [op \in {"detail", "update"} |->
                 IF op = "detail" THEN SoapOp("GetOrder", "urn:GetOrder")
                 ELSE SoapOp("UpdateOrder", "urn:UpdateOrder")],
             None, None, None)

CfgRestA == ProxyConfig(<<"http://a", "/">>, "rest", <<UsersA, OrdersA>>, None)
CfgRestB == ProxyConfig(<<"http://b", "/", "/">>, "rest", <<UsersB>>, None)
CfgSoap == ProxyConfig(<<"http://s/svc">>, "soap", <<UsersS, OrdersS>>, Some("urn:svc"))

Configs == {CfgRestA, CfgRestB, CfgSoap}

\* config.model_dump() and ProxyConfig.model_validate(dict): the dict has one
\* entry per field of the model and validation rebuilds the model from them.
model_dump(config) ==
    [f \in {"baseUrl", "apiType", "resources", "soapNamespace"} |->
        IF f = "baseUrl" THEN [t |-> "str", x |-> config.baseUrl]
        ELSE IF f = "apiType" THEN [t |-> "str", x |-> config.apiType]
        ELSE IF f = "resources" THEN [t |-> "list", x |-> config.resources]
        ELSE [t |-> "opt", x |-> config.soapNamespace]]
model_validate(config_dict) ==
    ProxyConfig(config_dict["baseUrl"].x, config_dict["apiType"].x,
                config_dict["resources"].x, config_dict["soapNamespace"].x)

-----------------------------------------------------------------------------
(* services/proxy_config_manager.py *)

FAbsent == [st |-> "absent"]
FPartial == [st |-> "partial"]
FFull(config_dict) == [st |-> "full", content |-> config_dict]

\* get_config on cache c and file f: what it returns or raises, and the cache
\* it leaves.
get_config(c, f) ==
    IF c.some THEN [kind |-> "return", value |-> c, cache |-> c]
    ELSE IF f.st = "absent" THEN [kind |-> "return", value |-> None, cache |-> c]
    ELSE IF f.st = "partial" THEN [kind |-> "raise", exc |-> "ValueError", cache |-> c]
    ELSE [kind |-> "return", value |-> Some(model_validate(f.content)),
          cache |-> Some(model_validate(f.content))]

\* mutant of FindResource: an unknown name falls back to the first resource
FindResource_fallback(config, resource_name) ==
    LET hits == {i \in 1..Len(config.resources) : config.resources[i].name = resource_name}
    IN IF hits = {} THEN Some(config.resources[1]) ELSE Some(config.resources[Min(hits)])

\* the loop of get_resource_config over config.resources
FindResource(config, resource_name) ==
    LET hits == {i \in 1..Len(config.resources) : config.resources[i].name = resource_name}
    IN IF hits = {} THEN None ELSE Some(config.resources[Min(hits)])

get_resource_config(c, f, resource_name) ==
    LET g == get_config(c, f)
    IN IF g.kind = "raise" THEN g
       ELSE IF ~g.value.some THEN g
       ELSE [kind |-> "return", value |-> FindResource(g.value.v, resource_name),
             cache |-> g.cache]

-----------------------------------------------------------------------------
(* services/soap_request_builder.py.  The parameter map is a sequence of   *)
(* [k, v] items whose key is optional: resource_config.primaryKey may be   *)
(* None.  _sanitize_xml_name iterates the key, which fails on None.        *)

build_soap_request(operation_name, namespace, parameters) ==
    IF parameters.some /\ \E i \in 1..Len(parameters.v) : ~parameters.v[i].k.some
    THEN [ok |-> FALSE]
    ELSE [ok |-> TRUE,
          xml |-> [operation |-> operation_name, namespace |-> namespace,
                   parameters |-> IF parameters.some THEN parameters.v ELSE <<>>]]

-----------------------------------------------------------------------------
(* services/proxy_forwarder.py *)

\* What a step of forward_request ends in: an exception leaving the
\* function (site names the raise statement), a returned pair, or the
\* outbound request.
Raise(exc, status, site) == [kind |-> "raise", exc |-> exc, status |-> status, site |-> site]
Return(status, payload) == [kind |-> "return", status |-> status, payload |-> payload]
Send(req) == [kind |-> "send", req |-> req]

Truthy(body) == body.some /\ body.v.items # <<>>

\* mutant of get_rest_heuristic: update goes out as POST to the collection
get_rest_heuristic_update_as_post(resource_config, operation) ==
    LET endpoint == resource_config.endpoint
    IN IF operation \in {"list"} THEN [ok |-> TRUE, method |-> "GET", path |-> endpoint]
       ELSE IF operation = "detail"
            THEN [ok |-> TRUE, method |-> "GET", path |-> endpoint \o <<"/", "{id}">>]
       ELSE IF operation \in {"create", "update"}
            THEN [ok |-> TRUE, method |-> "POST", path |-> endpoint]
       ELSE IF operation = "delete"
            THEN [ok |-> TRUE, method |-> "DELETE", path |-> endpoint \o <<"/", "{id}">>]
       ELSE [ok |-> FALSE]

get_rest_heuristic(resource_config, operation) ==
    LET endpoint == resource_config.endpoint
    IN IF operation = "list" THEN [ok |-> TRUE, method |-> "GET", path |-> endpoint]
       ELSE IF operation = "detail"
            THEN [ok |-> TRUE, method |-> "GET", path |-> endpoint \o <<"/", "{id}">>]
       ELSE IF operation = "create" THEN [ok |-> TRUE, method |-> "POST", path |-> endpoint]
       ELSE IF operation = "update"
            THEN [ok |-> TRUE, method |-> "PUT", path |-> endpoint \o <<"/", "{id}">>]
       ELSE IF operation = "delete"
            THEN [ok |-> TRUE, method |-> "DELETE", path |-> endpoint \o <<"/", "{id}">>]
       ELSE [ok |-> FALSE]

\* _forward_rest_request up to the outbound call (lines 120-157)
rest_prepare(config, resource_config, operation, id, body, query_params) ==
    LET explicit == /\ operation \in DOMAIN resource_config.operations
                    /\ resource_config.operations[operation].rest.some
        mp == IF explicit
              THEN [ok |-> TRUE,
                    method |-> resource_config.operations[operation].rest.v.method,
                    path |-> resource_config.operations[operation].rest.v.path]
              ELSE get_rest_heuristic(resource_config, operation)
        path_params == IF id.some THEN [n \in {"id"} |-> id.v] ELSE [n \in {} |-> ""]
    IN IF ~mp.ok THEN Raise("HTTPException", 400, "UNSUPPORTED_OPERATION")
       ELSE LET resolved == resolve_path(mp.path, path_params)
            IN IF ~resolved.ok THEN Raise("HTTPException", 400, "PATH_PARAMETER")
               ELSE Send([method |-> mp.method,
                          url |-> rstrip_slash(config.baseUrl) \o resolved.path,
                          body |-> IF ~Truthy(body) THEN None
                                   ELSE Some(map_fields(body.v, resource_config.fieldMappings,
                                                        FALSE).v),
                          params |-> query_params])

\* _forward_soap_request up to the outbound call (lines 295-364)
soap_prepare(config, resource_config, operation, id, body) ==
    IF operation \notin DOMAIN resource_config.operations
    THEN Return(400, ErrBody("OPERATION_NOT_CONFIGURED", 400))
    ELSE IF ~resource_config.operations[operation].soap.some
    THEN Return(400, ErrBody("SOAP_CONFIG_MISSING", 400))
    ELSE LET soap_config == resource_config.operations[operation].soap.v
             idParams == IF id.some
                         THEN <<Item(resource_config.primaryKey, JScalar(id.v))>>
                         ELSE <<>>
             mapped == IF Truthy(body)
                       THEN map_fields(body.v, resource_config.fieldMappings, FALSE).v.items
                       ELSE <<>>
             \* parameters.update(body)
             merge[i \in 0..Len(mapped)] ==
                 IF i = 0 THEN idParams
                 ELSE DictPut(merge[i - 1], Some(mapped[i].k), mapped[i].v)
             parameters == merge[Len(mapped)]
             built == build_soap_request(soap_config.operationName,
                                         IF config.soapNamespace.some
                                         THEN config.soapNamespace.v
                                         ELSE "http://tempuri.org/",
                                         IF parameters = <<>> THEN None ELSE Some(parameters))
         IN IF ~built.ok THEN Return(500, ErrBody("SOAP_BUILD_ERROR", 500))
            ELSE Send([method |-> "POST", url |-> config.baseUrl,
                       content |-> built.xml, soapAction |-> soap_config.soapAction])

\* forward_request up to the outbound call (lines 49-87 and the adapter's
\* first half), run on cache c and file f.  The store is read twice: by
\* get_config and again inside get_resource_config.
forward_dispatch(c, f, resource, operation, id, body, query_params) ==
    LET g1 == get_config(c, f)
    IN IF g1.kind = "raise"
       THEN [out |-> Raise(g1.exc, 0, "get_config"), cache |-> g1.cache,
             config |-> None, rc |-> None]
       ELSE IF ~g1.value.some
       THEN [out |-> Raise("HTTPException", 400, "CONFIG_NOT_SET"), cache |-> g1.cache,
             config |-> None, rc |-> None]
       ELSE LET g2 == get_resource_config(g1.cache, f, resource)
            IN IF g2.kind = "raise"
               THEN [out |-> Raise(g2.exc, 0, "get_config"), cache |-> g2.cache,
                     config |-> g1.value, rc |-> None]
               ELSE IF ~g2.value.some
               THEN [out |-> Raise("HTTPException", 404, "RESOURCE_NOT_FOUND"),
                     cache |-> g2.cache, config |-> g1.value, rc |-> None]
               ELSE [out |-> IF g1.value.v.apiType = "rest"
                             THEN rest_prepare(g1.value.v, g2.value.v, operation, id, body,
                                               query_params)
                             ELSE IF g1.value.v.apiType = "soap"
                             THEN soap_prepare(g1.value.v, g2.value.v, operation, id, body)
                             ELSE Raise("HTTPException", 500, "UNSUPPORTED_API_TYPE"),
                     cache |-> g2.cache, config |-> g1.value, rc |-> g2.value]

\* the generic `except Exception` of both adapters:
\* normalize_error(500, {"error": str(e)})
UnexpectedError ==
    Return(500, normalize_error(500, [json |-> TRUE,
                                      v |-> JDict(<<Item("error", JScalar("exception"))>>)]))

\* mutant of transport_failure: the timeout is not caught
transport_failure_uncaught(reply) ==
    IF reply.kind = "timeout" THEN Raise("TimeoutException", 0, "outbound call")
    ELSE IF reply.kind = "connect_error" THEN Return(503, normalize_connection_error)
    ELSE UnexpectedError

\* the three except clauses around the outbound call
transport_failure(reply) ==
    IF reply.kind = "timeout" THEN Return(503, normalize_timeout_error)
    ELSE IF reply.kind = "connect_error" THEN Return(503, normalize_connection_error)
    ELSE UnexpectedError

JNull == [t |-> "null"]

\* _forward_rest_request after the outbound call (lines 159-212): the set of
\* results the reply can lead to.  It is a single result except where
\* unwrap_by_path cannot follow the path.
rest_on_reply(resource_config, reply) ==
    IF reply.kind # "response" THEN {transport_failure(reply)}
    ELSE IF reply.status >= 400
    THEN {Return(reply.status, normalize_error(reply.status, reply.body))}
    ELSE IF ~reply.body.json
    THEN {Return(reply.status, DataBody(JDict(<<Item("data", JScalar(reply.body.text))>>)))}
    ELSE LET byPath == resource_config.responsePath.some
                       /\ resource_config.responsePath.v # <<>>
             unwrapped == IF byPath
                          THEN unwrap_by_path(reply.body.v, resource_config.responsePath.v)
                          ELSE [ok |-> TRUE, v |-> unwrap_response(reply.body.v)]
             finish(data) ==
                 LET m == map_fields(data, resource_config.fieldMappings, TRUE)
                 IN IF m.ok THEN Return(reply.status, DataBody(m.v)) ELSE UnexpectedError
         IN IF unwrapped.ok THEN {finish(unwrapped.v)}
            ELSE {finish(JNull), finish(reply.body.v), UnexpectedError}

-----------------------------------------------------------------------------
(* services/soap_response_parser.py.  An XML element is a record           *)
(* [ns, tag, attrib, text, children]: ns is the namespace URI ("" when the *)
(* tag has none), tag the local name.  Names are strings; Words gives the  *)
(* words a compound name is made of, which is what endswith, + and lower() *)
(* look at.                                                                *)

Soap11 == "http://schemas.xmlsoap.org/soap/envelope/"
Soap12 == "http://www.w3.org/2003/05/soap-envelope"
soap_namespaces == <<Soap11, Soap12>>

El(ns, tag, text, children) ==
    [ns |-> ns, tag |-> tag, attrib |-> <<>>, text |-> text, children |-> children]
Leaf(tag, text) == El("", tag, text, <<>>)
\* an attribute {ns}k="v" (ns "" when the name is unqualified), and an
\* element with attributes
Attr(ns, k, v) == [ns |-> ns, k |-> k, v |-> v]
WithAttrib(element, attrib) == [element EXCEPT !.attrib = attrib]

Words(name) ==
    CASE name = "GetUsersResponse" -> <<"GetUsers", "Response">>
      [] name = "GetUserResponse" -> <<"GetUser", "Response">>
      [] name = "ArchiveUserResponse" -> <<"ArchiveUser", "Response">>
      [] name = "GetOrderResponse" -> <<"GetOrder", "Response">>
      [] name = "UpdateOrderResponse" -> <<"UpdateOrder", "Response">>
      [] name = "ServiceFault" -> <<"Service", "Fault">>
      [] name = "MessageBody" -> <<"Message", "Body">>
      [] OTHER -> <<name>>
EndsWith(name, word) == Words(name)[Len(Words(name))] = word
Lower(name) ==
    CASE name = "Return" -> "return"
      [] name = "Result" -> "result"
      [] name = "Response" -> "response"
      [] OTHER -> name
\* str.strip(), and the truth value of a str
Strip(text) == IF text \in {" ", "  "} THEN "" ELSE IF text = " 5 " THEN "5" ELSE text
NonEmpty(text) == text # ""

\* the first element of seq that satisfies Test, if any
FirstWhere(seq, Test(_)) ==
    LET hits == {i \in 1..Len(seq) : Test(seq[i])}
    IN IF hits = {} THEN None ELSE Some(seq[Min(hits)])

\* root.find('{ns}Body'), body.find('{ns}Fault'): first child of that name
FindChild(element, ns, tag) ==
    LET Is(c) == c.ns = ns /\ c.tag = tag
    IN FirstWhere(element.children, Is)

RECURSIVE FindInNamespaces(_, _, _)
FindInNamespaces(element, namespaces, tag) ==
    IF namespaces = <<>> THEN None
    ELSE LET found == FindChild(element, Head(namespaces), tag)
         IN IF found.some THEN found
            ELSE FindInNamespaces(element, Tail(namespaces), tag)

extract_soap_body(root) ==
    LET namespaced == FindInNamespaces(root, soap_namespaces, "Body")
        IsBody(c) == EndsWith(c.tag, "Body")
        plain == FirstWhere(root.children, IsBody)
    IN IF namespaced.some THEN namespaced.v
       ELSE IF plain.some THEN plain.v
       ELSE root

\* all descendants of an element in document order
RECURSIVE Descendants(_)
RECURSIVE DescendantsOfAll(_)
DescendantsOfAll(elements) ==
    IF elements = <<>> THEN <<>>
    ELSE <<Head(elements)>> \o Descendants(Head(elements)) \o DescendantsOfAll(Tail(elements))
Descendants(element) == DescendantsOfAll(element.children)

\* fault.find('.//{*}outer/{*}inner')
FindPath(fault, outer, inner) ==
    LET d == Descendants(fault)
        IsInner(c) == c.tag = inner
        HasInner(c) == c.tag = outer /\ FirstWhere(c.children, IsInner).some
        parent == FirstWhere(d, HasInner)
    IN IF parent.some THEN FirstWhere(parent.v.children, IsInner) ELSE None

\* the loop over the children of the Fault element (SOAP 1.1): the last
\* non-empty faultcode / faultstring wins
RECURSIVE LastText(_, _, _)
LastText(children, tag, default) ==
    IF children = <<>> THEN default
    ELSE LET c == Head(children)
         IN LastText(Tail(children), tag,
                     IF c.tag = tag /\ NonEmpty(c.text) THEN c.text ELSE default)

\* Faulted(code, string): check_soap_fault raises SoapFaultError
NoFault == [fault |-> FALSE]
Faulted(fault_code, fault_string) ==
    [fault |-> TRUE, fault_code |-> fault_code, fault_string |-> fault_string]

\* mutant of check_soap_fault: only the two SOAP namespaces are searched
check_soap_fault_namespaced_only(body) ==
    LET fault == FindInNamespaces(body, soap_namespaces, "Fault")
    IN IF ~fault.some THEN NoFault
       ELSE LET code11 == LastText(fault.v.children, "faultcode", "Unknown")
                string11 == LastText(fault.v.children, "faultstring", "Unknown error")
                code_elem == FindPath(fault.v, "Code", "Value")
                reason_elem == FindPath(fault.v, "Reason", "Text")
            IN IF code11 # "Unknown" THEN Faulted(code11, string11)
               ELSE Faulted(IF code_elem.some /\ NonEmpty(code_elem.v.text)
                            THEN code_elem.v.text ELSE code11,
                            IF reason_elem.some /\ NonEmpty(reason_elem.v.text)
                            THEN reason_elem.v.text ELSE string11)

check_soap_fault(body) ==
    LET namespaced == FindInNamespaces(body, soap_namespaces, "Fault")
        IsFault(c) == EndsWith(c.tag, "Fault")
        fault == IF namespaced.some THEN namespaced
                 ELSE FirstWhere(body.children, IsFault)
    IN IF ~fault.some THEN NoFault
       ELSE LET code11 == LastText(fault.v.children, "faultcode", "Unknown")
                string11 == LastText(fault.v.children, "faultstring", "Unknown error")
                code_elem == FindPath(fault.v, "Code", "Value")
                reason_elem == FindPath(fault.v, "Reason", "Text")
            IN IF code11 # "Unknown" THEN Faulted(code11, string11)
               ELSE Faulted(IF code_elem.some /\ NonEmpty(code_elem.v.text)
                            THEN code_elem.v.text ELSE code11,
                            IF reason_elem.some /\ NonEmpty(reason_elem.v.text)
                            THEN reason_elem.v.text ELSE string11)

RECURSIVE CollectRecords(_)
CollectRecords(children) ==
    IF children = <<>> THEN <<>>
    ELSE LET child == Head(children)
         IN (IF Lower(child.tag) \in {"return", "result", "response"}
             THEN child.children
             ELSE <<child>>) \o CollectRecords(Tail(children))

extract_records(body, operation_name) ==
    LET IsResponse(c) ==
            \/ Words(c.tag) = Words(operation_name) \o <<"Response">>
            \/ c.tag = operation_name
        found == FirstWhere(body.children, IsResponse)
        response_elem == IF found.some THEN found.v ELSE body
        records == CollectRecords(response_elem.children)
    IN IF records = <<>> /\ found.some THEN <<response_elem>> ELSE records

\* the members of a set of indices in increasing order
Ascending(S) ==
    CHOOSE f \in [1..Cardinality(S) -> S] : \A a, b \in 1..Cardinality(S) : a < b => f[a] < f[b]

\* element_to_dict: a leaf gives its stripped text (a str) or {}; an inner
\* element gives a dict of its attributes, its children grouped by tag in
\* order of first appearance, and its text under "#text"
RECURSIVE element_to_dict(_)
element_to_dict(element) ==
    IF element.children = <<>>
    THEN IF NonEmpty(Strip(element.text)) THEN JScalar(Strip(element.text)) ELSE JDict(<<>>)
    ELSE LET n == Len(element.children)
             tagAt(i) == element.children[i].tag
             firsts == {i \in 1..n : \A j \in 1..(i - 1) : tagAt(j) # tagAt(i)}
             same(i) == Ascending({k \in 1..n : tagAt(k) = tagAt(i)})
             values(i) == [k \in 1..Len(same(i)) |-> element_to_dict(element.children[same(i)[k]])]
             grouped(i) == IF Len(values(i)) = 1 THEN values(i)[1] ELSE JList(values(i))
             order == Ascending(firsts)
             \* result[f"@{_strip_namespace(key)}"] = value, attribute by attribute
             put[a \in 0..Len(element.attrib)] ==
                 IF a = 0 THEN <<>>
                 ELSE DictPut(put[a - 1], "@" \o element.attrib[a].k,
                              JScalar(element.attrib[a].v))
             attrs == put[Len(element.attrib)]
             kids == [k \in 1..Len(order) |-> Item(tagAt(order[k]), grouped(order[k]))]
             text == IF NonEmpty(Strip(element.text))
                     THEN <<Item("#text", JScalar(Strip(element.text)))>>
                     ELSE <<>>
         IN JDict(attrs \o kids \o text)

\* an XML text is malformed (ET.fromstring raises) or a document with a root
Malformed == [malformed |-> TRUE]
Doc(root) == [malformed |-> FALSE, root |-> root]

\* parse_soap_response: what it raises or returns
parse_soap_response(xml_content, operation_name) ==
    IF xml_content.malformed THEN [kind |-> "error"]
    ELSE LET body == extract_soap_body(xml_content.root)
             fault == check_soap_fault(body)
             record_elements == extract_records(body, operation_name)
             records == [i \in 1..Len(record_elements) |-> element_to_dict(record_elements[i])]
         IN IF fault.fault
            THEN [kind |-> "fault", fault_code |-> fault.fault_code,
                  fault_string |-> fault.fault_string]
            ELSE [kind |-> "records",
                  data |-> IF Len(records) = 1 THEN records[1] ELSE JList(records)]

\* _forward_soap_request after the outbound call (lines 366-423)
soap_on_reply(resource_config, operation, reply) ==
    IF reply.kind # "response" THEN {transport_failure(reply)}
    ELSE IF reply.status # 200
    THEN {Return(reply.status, normalize_error(reply.status, reply.body))}
    ELSE LET parsed == parse_soap_response(
                           reply.xml, resource_config.operations[operation].soap.v.operationName)
         IN IF parsed.kind = "fault"
            THEN {Return(500, normalize_soap_fault(parsed.fault_code))}
            ELSE IF parsed.kind = "error"
            THEN {Return(500, ErrBody("SOAP_PARSE_ERROR", 500))}
            ELSE LET m == map_fields(parsed.data, resource_config.fieldMappings, TRUE)
                 IN IF m.ok THEN {Return(200, DataBody(m.v))} ELSE {UnexpectedError}

-----------------------------------------------------------------------------
(* Inputs *)

Rec == JDict(<<Item("CUST_ID", JScalar("1")), Item("name", JScalar("Ann"))>>)
NormRec == JDict(<<Item("customer_id", JScalar("1")), Item("name", JScalar("Ann"))>>)

JsonBodies ==
    {JScalar("5"),
     Rec,
     JList(<<Rec, Rec>>),
     JDict(<<Item("data", JList(<<Rec>>))>>),
     JDict(<<Item("total", JScalar("1")), Item("data", Rec)>>),
     JDict(<<Item("total", JScalar("1")), Item("rows", JList(<<Rec>>))>>)}

Bodies ==
    {[json |-> TRUE, v |-> j] : j \in JsonBodies}
    \cup {[json |-> FALSE, text |-> s] : s \in {"", "plain text", "<html>oops</html>"}}

\* what the outbound call can raise: httpx.TimeoutException, httpx.ConnectError
\* (DNS failure, connection refused), httpx.ReadError (connection reset by
\* the peer) and any other exception
TransportFailures ==
    {[kind |-> "timeout"], [kind |-> "connect_error"], [kind |-> "read_error"],
     [kind |-> "exception"]}

RestReplies ==
    TransportFailures
    \cup {[kind |-> "response", status |-> s, body |-> b] : s \in {200, 201, 404, 500}, b \in Bodies}

\* replies of a SOAP backend: Envelope and Body in the SOAP 1.1 namespace
Envelope(body_children) ==
    Doc(El(Soap11, "Envelope", "", <<El(Soap11, "Body", "", body_children)>>))
UserEl == El("", "User", "", <<Leaf("CUST_ID", "1"), Leaf("name", "Ann")>>)
SoapDocs ==
    {Malformed,
     Envelope(<<El(Soap11, "Fault", "",
                   <<Leaf("faultcode", "soap:Server"), Leaf("faultstring", "Bad")>>)>>),
     Envelope(<<El("", "GetUsersResponse", "", <<UserEl>>)>>),
     Envelope(<<El("", "GetUsersResponse", "", <<UserEl, UserEl>>)>>),
     Envelope(<<El("", "GetUsersResponse", "", <<Leaf("count", " 5 ")>>)>>)}

SoapReplies ==
    TransportFailures
    \cup {[kind |-> "response", status |-> s, body |-> [json |-> FALSE, text |-> "<soap/>"],
           xml |-> x] : s \in {200, 500}, x \in SoapDocs}
    \cup {[kind |-> "response", status |-> s, body |-> [json |-> FALSE, text |-> t],
           xml |-> Malformed] : s \in {404}, t \in {"Not Found", "<html>oops</html>"}}

Resources == {"users", "orders", "ghost"}
Operations == {"list", "detail", "create", "update", "delete", "archive", "purge"}
Ids == {None, Some("7")}
RequestBodies == {None, Some(NormRec)}
Queries == {None, Some("page=2")}

-----------------------------------------------------------------------------
(* The application on its event loop *)

FnIdle == fnIn = None /\ fnOut = None /\ fnPc = "idle"

NoArgs == [resource |-> "", operation |-> "", id |-> None, body |-> None, query |-> None]
NoThreads == [t \in {} |-> None]

Init ==
    /\ cache = None
    /\ file = FAbsent
    /\ lastSet = None
    /\ got = [op |-> "none"]
    /\ pc = "idle"
    /\ args = NoArgs
    /\ setAtStart = None
    /\ cfgUsed = None
    /\ rcUsed = None
    /\ request = None
    /\ sent = 0
    /\ backendReply = None
    /\ result = None
    /\ th = NoThreads
    /\ quiet = FALSE
    /\ FnIdle

\* POST /api/proxy/config -> set_config
SetConfig(config) ==
    /\ file' = FFull(model_dump(config))
    /\ cache' = Some(config)
    /\ lastSet' = Some(config)
    /\ UNCHANGED <<got, callVars, threadVars, fnVars>>

\* mutant of ClearConfig: the file goes, the cached configuration stays
ClearConfig_keeps_cache ==
    /\ cache' = cache
    /\ file' = FAbsent
    /\ lastSet' = None
    /\ UNCHANGED <<got, callVars, threadVars, fnVars>>

\* DELETE /api/proxy/config -> clear_config
ClearConfig ==
    /\ cache' = None
    /\ file' = FAbsent
    /\ lastSet' = None
    /\ UNCHANGED <<got, callVars, threadVars, fnVars>>

\* GET /api/proxy/config -> get_config
GetConfig ==
    LET g == get_config(cache, file)
    IN /\ cache' = g.cache
       /\ got' = IF g.kind = "raise"
                 THEN [op |-> "get_config", raised |-> TRUE, expect |-> lastSet]
                 ELSE [op |-> "get_config", raised |-> FALSE, value |-> g.value,
                       expect |-> lastSet]
       /\ UNCHANGED <<file, lastSet, callVars, threadVars, fnVars>>

\* is_configured, as the proxy routes call it
IsConfigured ==
    LET g == get_config(cache, file)
    IN /\ cache' = g.cache
       /\ got' = IF g.kind = "raise"
                 THEN [op |-> "is_configured", raised |-> TRUE, expect |-> lastSet]
                 ELSE [op |-> "is_configured", raised |-> FALSE, flag |-> g.value.some,
                       expect |-> lastSet]
       /\ UNCHANGED <<file, lastSet, callVars, threadVars, fnVars>>

\* forward_request from its call to its first await or its end
ForwardStart(resource, operation, id, body, query_params) ==
    /\ pc = "idle"
    /\ LET d == forward_dispatch(cache, file, resource, operation, id, body, query_params)
       IN /\ cache' = d.cache
          /\ cfgUsed' = d.config
          /\ rcUsed' = d.rc
          /\ IF d.out.kind = "send"
             THEN /\ pc' = "awaiting"
                  /\ request' = Some(d.out.req)
                  /\ sent' = sent + 1
                  /\ result' = None
             ELSE /\ pc' = "done"
                  /\ request' = None
                  /\ sent' = sent
                  /\ result' = Some(d.out)
    /\ args' = [resource |-> resource, operation |-> operation, id |-> id, body |-> body,
                query |-> query_params]
    /\ setAtStart' = lastSet
    /\ backendReply' = None
    /\ UNCHANGED <<file, lastSet, got, threadVars, fnVars>>

\* mutant of BackendReply: a failed transport is tried again
BackendReply_retry(r) ==
    /\ pc = "awaiting"
    /\ r \in (IF cfgUsed.v.apiType = "rest" THEN RestReplies ELSE SoapReplies)
    /\ backendReply' = Some(r)
    /\ IF r.kind # "response"
       THEN /\ sent' = sent + 1
            /\ pc' = "awaiting"
            /\ result' = result
       ELSE /\ sent' = sent
            /\ pc' = "done"
            /\ \E res \in (IF cfgUsed.v.apiType = "rest"
                           THEN rest_on_reply(rcUsed.v, r)
                           ELSE soap_on_reply(rcUsed.v, args.operation, r)) :
                  result' = Some(res)
    /\ UNCHANGED <<storeVars, got, args, setAtStart, cfgUsed, rcUsed, request, threadVars, fnVars>>

\* the outbound call completes (or fails) and forward_request runs to its end
BackendReply(r) ==
    /\ pc = "awaiting"
    /\ r \in (IF cfgUsed.v.apiType = "rest" THEN RestReplies ELSE SoapReplies)
    /\ backendReply' = Some(r)
    /\ \E res \in (IF cfgUsed.v.apiType = "rest"
                   THEN rest_on_reply(rcUsed.v, r)
                   ELSE soap_on_reply(rcUsed.v, args.operation, r)) :
          result' = Some(res)
    /\ pc' = "done"
    /\ UNCHANGED <<storeVars, got, args, setAtStart, cfgUsed, rcUsed, request, sent,
                   threadVars, fnVars>>

\* the caller has the result; the next call may start
ForwardReturn ==
    /\ pc = "done"
    /\ pc' = "idle"
    /\ args' = NoArgs
    /\ setAtStart' = None
    /\ cfgUsed' = None
    /\ rcUsed' = None
    /\ request' = None
    /\ sent' = 0
    /\ backendReply' = None
    /\ result' = None
    /\ UNCHANGED <<storeVars, got, threadVars, fnVars>>

Next ==
    \/ \E config \in Configs : SetConfig(config)
    \/ ClearConfig
    \/ GetConfig
    \/ IsConfigured
    \/ \E resource \in Resources, operation \in Operations, id \in Ids,
          body \in RequestBodies, query_params \in Queries :
            ForwardStart(resource, operation, id, body, query_params)
    \/ \E r \in RestReplies \cup SoapReplies : BackendReply(r)
    \/ ForwardReturn

Spec == Init /\ [][Next]_vars

-----------------------------------------------------------------------------
(* Properties of the running application (Spec) *)

InCall == pc \in {"awaiting", "done"}
CrudNames == {"list", "detail", "create", "update", "delete"}

\* the configuration the operator had set when the call started, and the
\* entry of the requested resource in it
HasResource(config, name) == \E i \in 1..Len(config.resources) : config.resources[i].name = name
ResourceOf(config, name) ==
    config.resources[Min({i \in 1..Len(config.resources) : config.resources[i].name = name})]
HasExplicitRest(rc, operation) ==
    operation \in DOMAIN rc.operations /\ rc.operations[operation].rest.some

C3_ReadAfterWrite ==
    /\ get_config(cache, file).kind = "return"
    /\ get_config(cache, file).value = lastSet
    /\ got.op = "get_config" => ~got.raised /\ got.value = got.expect
    /\ got.op = "is_configured" => ~got.raised /\ got.flag = got.expect.some

\* C3 witness: get_config answered with the configuration set last.
C3_Witness ==
    /\ got.op = "get_config"
    /\ got.value = Some(CfgSoap)
    /\ lastSet = Some(CfgSoap)

\* C5: forward checks the store in a fixed order: no configuration set gives
\* the CONFIG_NOT_SET failure (400) whatever the resource; a configuration
\* without the named resource gives RESOURCE_NOT_FOUND (404); only otherwise
\* does the adapter of the configuration's apiType run.
C5_DispatchOrder ==
    InCall =>
        /\ ~setAtStart.some =>
              result = Some(Raise("HTTPException", 400, "CONFIG_NOT_SET"))
        /\ (setAtStart.some /\ ~HasResource(setAtStart.v, args.resource)) =>
              result = Some(Raise("HTTPException", 404, "RESOURCE_NOT_FOUND"))
        /\ (setAtStart.some /\ HasResource(setAtStart.v, args.resource)) =>
              /\ pc = "done" =>
                    \/ result.v.kind = "return"
                    \/ result.v.site \notin {"CONFIG_NOT_SET", "RESOURCE_NOT_FOUND"}
              /\ request.some =>
                    ("soapAction" \in DOMAIN request.v <=> setAtStart.v.apiType = "soap")
              /\ (pc = "done" /\ result.v.kind = "raise") => setAtStart.v.apiType = "rest"

\* C5 witness: a configuration is set, the resource is not in it, the call
\* failed with 404.
C5_Witness ==
    /\ pc = "done"
    /\ setAtStart = Some(CfgRestB)
    /\ args.resource = "orders"
    /\ result.v.status = 404

\* why the call cannot reach the network step, in the terms of the
\* configuration set at its start ("none": it can)
SuppliedParams == IF args.id.some THEN {"id"} ELSE {}
RestTemplate(rc, operation) ==
    IF HasExplicitRest(rc, operation) THEN rc.operations[operation].rest.v.path
    ELSE get_rest_heuristic(rc, operation).path
LocalFailure ==
    IF ~setAtStart.some THEN "config absent"
    ELSE IF ~HasResource(setAtStart.v, args.resource) THEN "resource absent"
    ELSE LET rc == ResourceOf(setAtStart.v, args.resource)
             op == args.operation
         IN IF setAtStart.v.apiType = "rest"
            THEN IF ~HasExplicitRest(rc, op) /\ op \notin CrudNames
                 THEN "unsupported operation"
                 ELSE IF ~(param_names(RestTemplate(rc, op)) \subseteq SuppliedParams)
                 THEN "path parameter"
                 ELSE "none"
            ELSE IF op \notin DOMAIN rc.operations THEN "OPERATION_NOT_CONFIGURED"
                 ELSE IF ~rc.operations[op].soap.some THEN "SOAP_CONFIG_MISSING"
                 ELSE IF args.id.some /\ ~rc.primaryKey.some THEN "envelope build"
                 ELSE "none"

\* C6: when the call fails for a local reason (configuration absent,
\* resource absent, unsupported operation name, placeholder without a value,
\* SOAP operation not configured or without a SOAP variant, both 400, or an
\* envelope that cannot be built) no outbound request is made: the failure
\* is decided before the network step.
C6_NoCallOnLocalFailure ==
    (InCall /\ LocalFailure # "none") =>
        /\ sent = 0
        /\ request = None
        /\ backendReply = None
        /\ pc = "done"
        /\ LocalFailure \in {"OPERATION_NOT_CONFIGURED", "SOAP_CONFIG_MISSING"} =>
              result = Some(Return(400, ErrBody(LocalFailure, 400)))

\* C6 witness: a REST call whose path template has a placeholder without a
\* value ended without an outbound request.
C6_Witness ==
    /\ pc = "done"
    /\ setAtStart = Some(CfgRestA)
    /\ args.resource = "orders"
    /\ args.operation = "update"
    /\ args.id = Some("7")
    /\ LocalFailure = "path parameter"
    /\ sent = 0

\* C7: a forward call makes at most one outbound request, in both adapters:
\* once the backend has answered or the transport has failed the call is
\* over and no second request was issued.
C7_AtMostOneRequest ==
    /\ sent <= 1
    /\ backendReply.some => pc = "done" /\ sent = 1
    /\ pc = "awaiting" => sent = 1 /\ ~backendReply.some

\* C7 witness: a SOAP call ended on a connection failure after one request.
C7_Witness ==
    /\ pc = "done"
    /\ cfgUsed = Some(CfgSoap)
    /\ backendReply = Some([kind |-> "connect_error"])
    /\ result.v.status = 503
    /\ sent = 1

\* baseUrl without its trailing slashes
StripTrailingSlashes(url) ==
    SubSeq(url, 1, Max({0} \cup {i \in 1..Len(url) : url[i] # "/"}))

\* C8: in the REST adapter an operation without explicit REST configuration
\* is resolved from the fixed table (list -> GET endpoint, detail -> GET
\* endpoint/<id>, create -> POST endpoint, update -> PUT endpoint/<id>,
\* delete -> DELETE endpoint/<id>) and sent to baseUrl, trailing slash
\* removed, followed by that path; an explicit REST configuration supplies
\* method and path template instead.
C8_RestResolution ==
    (sent = 1 /\ cfgUsed.v.apiType = "rest") =>
        LET rc == rcUsed.v
            op == args.operation
            base == StripTrailingSlashes(cfgUsed.v.baseUrl)
            withId == rc.endpoint \o <<"/", args.id.v>>
        IN IF HasExplicitRest(rc, op)
           THEN /\ request.v.method = rc.operations[op].rest.v.method
                /\ request.v.url =
                      base \o [i \in 1..Len(rc.operations[op].rest.v.path) |->
                                  IF rc.operations[op].rest.v.path[i] = "{id}"
                                  THEN args.id.v
                                  ELSE rc.operations[op].rest.v.path[i]]
           ELSE /\ op \in CrudNames
                /\ request.v.method =
                      CASE op = "list" -> "GET"
                        [] op = "detail" -> "GET"
                        [] op = "create" -> "POST"
                        [] op = "update" -> "PUT"
                        [] op = "delete" -> "DELETE"
                /\ request.v.url =
                      CASE op = "list" -> base \o rc.endpoint
                        [] op = "detail" -> base \o withId
                        [] op = "create" -> base \o rc.endpoint
                        [] op = "update" -> base \o withId
                        [] op = "delete" -> base \o withId

\* C8 witness: update of users/7 with no explicit configuration went out as
\* PUT /users/7 under the base URL without its slash.
C8_Witness ==
    /\ sent = 1
    /\ cfgUsed = Some(CfgRestA)
    /\ args.resource = "users"
    /\ args.operation = "update"
    /\ request.v.method = "PUT"
    /\ request.v.url = <<"http://a", "/users", "/", "7">>

\* C9 (as claimed): forward accepts exactly list, detail, create, update and
\* delete; any other operation name is rejected as invalid input, under
\* either apiType and whatever the operations map holds, and nothing is sent.
C9_OnlyCrudNamesAccepted ==
    (InCall /\ rcUsed.some /\ args.operation \notin CrudNames) =>
        /\ sent = 0
        /\ pc = "done"
        /\ result.v.status = 400

\* what the claim C10 expects of a successful REST reply
ClaimUnwrap(rc, body) ==
    IF rc.responsePath.some /\ rc.responsePath.v # <<>>
    THEN unwrap_by_path(body, rc.responsePath.v).v
    ELSE unwrap_response(body)
ClaimReverseMap(rc, data) ==
    IF ~rc.fieldMappings.some \/ rc.fieldMappings.v = <<>> THEN data
    ELSE IF data.t = "dict" THEN map_single_record(data, rc.fieldMappings.v, TRUE).v
    ELSE IF data.t = "list"
         THEN JList([i \in 1..Len(data.items) |->
                        IF data.items[i].t = "dict"
                        THEN map_single_record(data.items[i], rc.fieldMappings.v, TRUE).v
                        ELSE data.items[i]])
    ELSE data

\* C10 (as claimed): a REST reply with a status below 400 and a JSON body
\* (object, array or scalar) comes back with that status and the body
\* unwrapped (by responsePath if configured, else by the heuristic) and then
\* reverse field-mapped when mappings exist.
C10_SuccessUnwrapThenMap ==
    (/\ pc = "done"
     /\ backendReply.some
     /\ cfgUsed.v.apiType = "rest"
     /\ backendReply.v.kind = "response"
     /\ backendReply.v.status < 400
     /\ backendReply.v.body.json
     /\ (rcUsed.v.responsePath.some =>
            unwrap_by_path(backendReply.v.body.v, rcUsed.v.responsePath.v).ok))
    => result = Some(Return(backendReply.v.status,
                            DataBody(ClaimReverseMap(rcUsed.v,
                                                     ClaimUnwrap(rcUsed.v,
                                                                 backendReply.v.body.v)))))

-----------------------------------------------------------------------------
(* Error mapping of the adapters (Spec) *)

IsHtmlBody(body) ==
    \/ ~body.json /\ body.text \in HtmlTexts
    \/ body.json /\ body.v.t = "scalar" /\ body.v.s \in HtmlTexts
RestReplied ==
    /\ pc = "done"
    /\ backendReply.some
    /\ cfgUsed.v.apiType = "rest"
    /\ backendReply.v.kind = "response"

C12_TransportFailureCodes ==
    (/\ pc = "done"
     /\ backendReply.some
     /\ backendReply.v.kind \in {"timeout", "connect_error", "read_error"})
    => result = Some(Return(503, IF backendReply.v.kind = "timeout"
                                 THEN ErrBody("BACKEND_UNAVAILABLE", 503)
                                 ELSE ErrBody("CONNECTION_ERROR", 503)))

SoapReplied200 ==
    /\ pc = "done"
    /\ backendReply.some
    /\ cfgUsed.v.apiType = "soap"
    /\ backendReply.v.kind = "response"
    /\ backendReply.v.status = 200
ParsedReply ==
    parse_soap_response(backendReply.v.xml,
                        rcUsed.v.operations[args.operation].soap.v.operationName)

\* C13 (as claimed): for an HTTP 200 reply the SOAP adapter returns exactly
\* one of: (500, SOAP_FAULT with the fault's own code in soapFaultCode) when
\* the reply holds a fault; (500, SOAP_PARSE_ERROR) when parsing fails
\* otherwise; (200, the parsed record or records, reverse field-mapped when
\* mappings exist) in every other case, whatever the shape of the records.
C13_SoapThreeOutcomes ==
    SoapReplied200 =>
        result = Some(CASE ParsedReply.kind = "fault" ->
                               Return(500, [isError |-> TRUE, code |-> "SOAP_FAULT",
                                            status |-> 500,
                                            soapFaultCode |-> ParsedReply.fault_code])
                        [] ParsedReply.kind = "error" ->
                               Return(500, ErrBody("SOAP_PARSE_ERROR", 500))
                        [] ParsedReply.kind = "records" ->
                               Return(200, DataBody(ClaimReverseMap(rcUsed.v, ParsedReply.data))))

-----------------------------------------------------------------------------
(* The store driven from several threads (SpecThreads).  Each statement of *)
(* set_config, get_config and clear_config is one step; forward_request is *)
(* followed through its two reads of the store (lines 50 and 58).          *)

NumThreads == 2
Threads == 1..NumThreads
ThreadConfigs == {CfgRestA, CfgRestB}

NoResult == [op |-> "none"]
Idle(res) == [pc |-> "idle", res |-> res]

InitThreads ==
    /\ cache = None
    /\ file = FAbsent
    /\ lastSet = None
    /\ got = [op |-> "none"]
    /\ pc = "idle"
    /\ args = NoArgs
    /\ setAtStart = None
    /\ cfgUsed = None
    /\ rcUsed = None
    /\ request = None
    /\ sent = 0
    /\ backendReply = None
    /\ result = None
    /\ th = [t \in Threads |-> Idle(NoResult)]
    /\ quiet = FALSE
    /\ FnIdle

InSetConfig(t) == th[t].pc \in {"set_open", "set_write", "set_cache"}
InClearConfig(t) == th[t].pc \in {"clear_exists", "clear_unlink"}
Frame == UNCHANGED <<lastSet, got, callVars, fnVars>>

\* a thread calls set_config(config)
TCallSet(t, config) ==
    /\ th[t].pc = "idle"
    /\ th' = [u \in Threads |->
                IF u = t THEN [pc |-> "set_open", op |-> "set_config", arg |-> config]
                ELSE IF InClearConfig(u) THEN [th[u] EXCEPT !.alone = FALSE]
                ELSE th[u]]
    /\ quiet' = FALSE
    /\ UNCHANGED <<cache, file>>
    /\ Frame

\* line 51: open(storage_path, 'w') creates or truncates the file
TSetOpen(t) ==
    /\ th[t].pc = "set_open"
    /\ file' = FPartial
    /\ th' = [th EXCEPT ![t] = [pc |-> "set_write", op |-> "set_config", arg |-> th[t].arg,
                                detached |-> FALSE]]
    /\ UNCHANGED <<cache, quiet>>
    /\ Frame

\* line 52 and the end of the with block: json.dump and close.  A handle
\* whose file was unlinked writes to nothing; a write over what another
\* writer has put there since this open may leave either text or a mix.
TSetWrite(t) ==
    /\ th[t].pc = "set_write"
    /\ IF th[t].detached THEN file' = file
       ELSE IF file.st = "partial" THEN file' = FFull(model_dump(th[t].arg))
       ELSE file' \in {FFull(model_dump(th[t].arg)), FPartial}
    /\ th' = [th EXCEPT ![t] = [pc |-> "set_cache", op |-> "set_config", arg |-> th[t].arg]]
    /\ UNCHANGED <<cache, quiet>>
    /\ Frame

\* line 55: self._cache = config, and set_config returns
TSetCache(t) ==
    /\ th[t].pc = "set_cache"
    /\ cache' = Some(th[t].arg)
    /\ th' = [th EXCEPT ![t] = Idle([op |-> "set_config", kind |-> "return"])]
    /\ UNCHANGED <<file, quiet>>
    /\ Frame

\* a thread calls get_config()
TCallGet(t) ==
    /\ th[t].pc = "idle"
    /\ th' = [th EXCEPT ![t] = [pc |-> "get_check", op |-> "get_config", ret |-> "get",
                                resource |-> None, config |-> None, loaded |-> None,
                                quietAtStart |-> quiet]]
    /\ UNCHANGED <<cache, file, quiet>>
    /\ Frame

\* a thread calls forward_request(resource, ...): line 50, config = get_config()
TCallForward(t, resource) ==
    /\ th[t].pc = "idle"
    /\ th' = [th EXCEPT ![t] = [pc |-> "get_check", op |-> "forward", ret |-> "fwd_config",
                                resource |-> Some(resource), config |-> None,
                                loaded |-> None, quietAtStart |-> quiet]]
    /\ UNCHANGED <<cache, file, quiet>>
    /\ Frame

\* get_config hands `outcome` to its caller: the get_config call itself,
\* line 50 of forward_request, or get_resource_config called at line 58.
Deliver(t, outcome) ==
    IF th[t].ret = "get"
    THEN Idle([op |-> "get_config", outcome |-> outcome,
               afterClear |-> th[t].quietAtStart /\ quiet])
    ELSE IF outcome.kind = "raise"
    THEN Idle([op |-> "forward", kind |-> "raise", exc |-> outcome.exc])
    ELSE IF th[t].ret = "fwd_config"
    THEN IF ~outcome.value.some
         THEN Idle([op |-> "forward", kind |-> "raise", exc |-> "HTTPException",
                    status |-> 400])
         ELSE [pc |-> "get_check", op |-> "forward", ret |-> "fwd_resource",
               resource |-> th[t].resource, config |-> outcome.value,
               loaded |-> None, quietAtStart |-> th[t].quietAtStart]
    ELSE LET rc == IF outcome.value.some
                   THEN FindResource(outcome.value.v, th[t].resource.v)
                   ELSE None
         IN IF ~rc.some
            THEN Idle([op |-> "forward", kind |-> "raise", exc |-> "HTTPException",
                       status |-> 404])
            ELSE Idle([op |-> "forward", kind |-> "dispatched", config |-> th[t].config.v,
                       rc |-> rc.v])

\* line 72: if self._cache is not None
TGetCheck(t) ==
    /\ th[t].pc = "get_check"
    /\ th' = [th EXCEPT ![t].pc = IF cache.some THEN "get_return_cache" ELSE "get_exists"]
    /\ UNCHANGED <<cache, file, quiet>>
    /\ Frame

\* line 73: return self._cache, read again
TGetReturnCache(t) ==
    /\ th[t].pc = "get_return_cache"
    /\ th' = [th EXCEPT ![t] = Deliver(t, [kind |-> "return", value |-> cache])]
    /\ UNCHANGED <<cache, file, quiet>>
    /\ Frame

\* lines 76-77: if not self.storage_path.exists(): return None
TGetExists(t) ==
    /\ th[t].pc = "get_exists"
    /\ th' = [th EXCEPT ![t] = IF file.st = "absent"
                               THEN Deliver(t, [kind |-> "return", value |-> None])
                               ELSE [th[t] EXCEPT !.pc = "get_read"]]
    /\ UNCHANGED <<cache, file, quiet>>
    /\ Frame

\* lines 80-84 and 91-94: open, json.load, model_validate
TGetRead(t) ==
    /\ th[t].pc = "get_read"
    /\ th' = [th EXCEPT ![t] =
                IF file.st = "absent" THEN Deliver(t, [kind |-> "raise", exc |-> "OSError"])
                ELSE IF file.st = "partial"
                THEN Deliver(t, [kind |-> "raise", exc |-> "ValueError"])
                ELSE [th[t] EXCEPT !.pc = "get_store",
                                   !.loaded = Some(model_validate(file.content))]]
    /\ UNCHANGED <<cache, file, quiet>>
    /\ Frame

\* lines 87-89: self._cache = config; return config
TGetStore(t) ==
    /\ th[t].pc = "get_store"
    /\ cache' = th[t].loaded
    /\ th' = [th EXCEPT ![t] = Deliver(t, [kind |-> "return", value |-> th[t].loaded])]
    /\ UNCHANGED <<file, quiet>>
    /\ Frame

\* a thread calls clear_config(); line 102: self._cache = None
TClearCache(t) ==
    /\ th[t].pc = "idle"
    /\ cache' = None
    /\ th' = [th EXCEPT ![t] = [pc |-> "clear_exists", op |-> "clear_config",
                                alone |-> ~\E u \in Threads : InSetConfig(u)]]
    /\ UNCHANGED <<file, quiet>>
    /\ Frame

\* line 105: if self.storage_path.exists()
TClearExists(t) ==
    /\ th[t].pc = "clear_exists"
    /\ IF file.st = "absent"
       THEN /\ th' = [th EXCEPT ![t] = Idle([op |-> "clear_config", kind |-> "return"])]
            /\ quiet' = th[t].alone
       ELSE /\ th' = [th EXCEPT ![t].pc = "clear_unlink"]
            /\ quiet' = quiet
    /\ UNCHANGED <<cache, file>>
    /\ Frame

\* line 107: self.storage_path.unlink(); writers keep their handle on the
\* unlinked file.  `alone` records that no set_config ran during this call,
\* and `quiet` that a clear_config completed so with no set_config since.
TClearUnlink(t) ==
    /\ th[t].pc = "clear_unlink"
    /\ IF file.st = "absent"
       THEN /\ th' = [th EXCEPT ![t] = Idle([op |-> "clear_config", kind |-> "raise",
                                             exc |-> "OSError"])]
            /\ file' = file
            /\ quiet' = quiet
       ELSE /\ th' = [u \in Threads |->
                        IF u = t THEN Idle([op |-> "clear_config", kind |-> "return"])
                        ELSE IF th[u].pc = "set_write" THEN [th[u] EXCEPT !.detached = TRUE]
                        ELSE th[u]]
            /\ file' = FAbsent
            /\ quiet' = th[t].alone
    /\ UNCHANGED cache
    /\ Frame

NextThreads ==
    \E t \in Threads :
        \/ \E config \in ThreadConfigs : TCallSet(t, config)
        \/ TSetOpen(t)
        \/ TSetWrite(t)
        \/ TSetCache(t)
        \/ TCallGet(t)
        \/ TCallForward(t, "users")
        \/ TGetCheck(t)
        \/ TGetReturnCache(t)
        \/ TGetExists(t)
        \/ TGetRead(t)
        \/ TGetStore(t)
        \/ TClearCache(t)
        \/ TClearExists(t)
        \/ TClearUnlink(t)

SpecThreads == InitThreads /\ [][NextThreads]_vars

\* C2 (as claimed): under any interleaving with set_config and clear_config,
\* a get_config never fails; it returns "not configured" or one complete
\* configuration that was passed to set_config; and a get_config that runs
\* wholly after a clear_config completed, with no set_config since, returns
\* "not configured".
C2_GetConfigConsistent ==
    \A t \in Threads :
        (th[t].pc = "idle" /\ th[t].res.op = "get_config") =>
            /\ th[t].res.outcome.kind = "return"
            /\ \/ th[t].res.outcome.value = None
               \/ th[t].res.outcome.value.v \in ThreadConfigs
            /\ th[t].res.afterClear => th[t].res.outcome.value = None

\* C4 (as claimed): the ProxyConfig and the ResourceConfig one forward call
\* works with come from the same snapshot, also when set_config or
\* clear_config runs concurrently: the resource entry is an entry of the
\* configuration.
C4_SameSnapshot ==
    \A t \in Threads :
        (th[t].pc = "idle" /\ th[t].res.op = "forward" /\ th[t].res.kind = "dispatched") =>
            \E i \in 1..Len(th[t].res.config.resources) :
                th[t].res.config.resources[i] = th[t].res.rc

SoapCallWithId ==
    /\ pc \in {"awaiting", "done"}
    /\ cfgUsed.some
    /\ rcUsed.some
    /\ cfgUsed.v.apiType = "soap"
    /\ args.id.some
    /\ args.operation \in DOMAIN rcUsed.v.operations
    /\ rcUsed.v.operations[args.operation].soap.some

\* C23 (as claimed): in the SOAP adapter, whenever an id is supplied the
\* request envelope carries it as a parameter named after the resource's
\* primaryKey, or named "id" when the resource configuration has no
\* primaryKey; the body (forward-mapped when mappings exist) is merged into
\* the same parameter map.
C23_IdParameterNamed ==
    SoapCallWithId =>
        /\ request.some
        /\ LET name == IF rcUsed.v.primaryKey.some THEN rcUsed.v.primaryKey.v ELSE "id"
               parameters == request.v.content.parameters
               mapped == IF Truthy(args.body)
                         THEN map_fields(args.body.v, rcUsed.v.fieldMappings, FALSE).v.items
                         ELSE <<>>
           IN /\ \E i \in 1..Len(parameters) :
                    /\ parameters[i].k = Some(name)
                    /\ (\A j \in 1..Len(mapped) : mapped[j].k # name)
                           => parameters[i].v = JScalar(args.id.v)
              /\ \A j \in 1..Len(mapped) :
                    \E i \in 1..Len(parameters) :
                        parameters[i] = Item(Some(mapped[j].k), mapped[j].v)

-----------------------------------------------------------------------------
(* The helper functions on their own.  Each specification below starts     *)
(* with the application at rest and one input drawn from a bounded set,    *)
(* and steps through the function.                                         *)

AtRest ==
    /\ cache = None
    /\ file = FAbsent
    /\ lastSet = None
    /\ got = [op |-> "none"]
    /\ pc = "idle"
    /\ args = NoArgs
    /\ setAtStart = None
    /\ cfgUsed = None
    /\ rcUsed = None
    /\ request = None
    /\ sent = 0
    /\ backendReply = None
    /\ result = None
    /\ th = NoThreads
    /\ quiet = FALSE
RestUnchanged == UNCHANGED <<storeVars, got, callVars, threadVars>>

-----------------------------------------------------------------------------
(* parse_soap_response, statement by statement (SpecParse) *)

EnvelopeNamespaces == {Soap11, Soap12, ""}
FaultShapes == {"1.1", "1.2"}
FaultCodes == {"soap:Server", "soap:Client"}
FaultReasons == {"Bad", "Denied"}
ResponseEl == El("", "GetUsersResponse", "", <<UserEl>>)
Siblings == {<<>>, <<ResponseEl>>}

\* the children of a Fault element in the SOAP 1.1 and the SOAP 1.2 shape
FaultChildren(shape, ns, code, reason) ==
    IF shape = "1.1"
    THEN <<Leaf("faultcode", code), Leaf("faultstring", reason), Leaf("detail", "x")>>
    ELSE <<El(ns, "Code", "", <<El(ns, "Value", code, <<>>),
                                El(ns, "Subcode", "", <<El(ns, "Value", "m:Sub", <<>>)>>)>>),
           El(ns, "Reason", "", <<El(ns, "Text", reason, <<>>)>>)>>

EnvelopeIn(ns, body_children) ==
    Doc(El(ns, "Envelope", "", <<El(ns, "Header", "", <<>>), El(ns, "Body", "", body_children)>>))

FaultInputs ==
    {[doc |-> EnvelopeIn(envNs, before \o <<El(faultNs, "Fault", "",
                                               FaultChildren(shape, faultNs, code, reason))>>
                                \o after),
      hasFault |-> TRUE, shape |-> shape, faultNs |-> faultNs,
      code |-> code, reason |-> reason] :
        envNs \in EnvelopeNamespaces, faultNs \in EnvelopeNamespaces, shape \in FaultShapes,
        code \in FaultCodes, reason \in FaultReasons, before \in Siblings, after \in Siblings}

PlainInputs ==
    {[doc |-> d, hasFault |-> FALSE] :
        d \in {Malformed} \cup {EnvelopeIn(ns, b) : ns \in EnvelopeNamespaces,
                                                    b \in {<<ResponseEl>>, <<UserEl, UserEl>>}}}

InitParse ==
    /\ AtRest
    /\ fnIn \in FaultInputs \cup PlainInputs
    /\ fnOut = None
    /\ fnPc = "fromstring"

\* lines 65-68: ET.fromstring
ParseFromString ==
    /\ fnPc = "fromstring"
    /\ IF fnIn.doc.malformed
       THEN fnPc' = "done" /\ fnOut' = Some([kind |-> "error"])
       ELSE fnPc' = "extract_soap_body" /\ fnOut' = Some([root |-> fnIn.doc.root])
    /\ UNCHANGED fnIn
    /\ RestUnchanged

\* line 71
ExtractSoapBody ==
    /\ fnPc = "extract_soap_body"
    /\ fnPc' = "check_soap_fault"
    /\ fnOut' = Some([body |-> extract_soap_body(fnOut.v.root)])
    /\ UNCHANGED fnIn
    /\ RestUnchanged

\* line 74
CheckSoapFault ==
    /\ fnPc = "check_soap_fault"
    /\ LET fault == check_soap_fault(fnOut.v.body)
       IN IF fault.fault
          THEN /\ fnPc' = "done"
               /\ fnOut' = Some([kind |-> "fault", fault_code |-> fault.fault_code,
                                 fault_string |-> fault.fault_string])
          ELSE /\ fnPc' = "extract_records"
               /\ fnOut' = fnOut
    /\ UNCHANGED fnIn
    /\ RestUnchanged

\* line 77
ExtractRecords ==
    /\ fnPc = "extract_records"
    /\ fnPc' = "convert"
    /\ fnOut' = Some([record_elements |-> extract_records(fnOut.v.body, "GetUsers")])
    /\ UNCHANGED fnIn
    /\ RestUnchanged

\* lines 80-86
ConvertRecords ==
    /\ fnPc = "convert"
    /\ fnPc' = "done"
    /\ LET records == [i \in 1..Len(fnOut.v.record_elements) |->
                          element_to_dict(fnOut.v.record_elements[i])]
       IN fnOut' = Some([kind |-> "records",
                         data |-> IF Len(records) = 1 THEN records[1] ELSE JList(records)])
    /\ UNCHANGED fnIn
    /\ RestUnchanged

NextParse ==
    \/ ParseFromString
    \/ ExtractSoapBody
    \/ CheckSoapFault
    \/ ExtractRecords
    \/ ConvertRecords

SpecParse == InitParse /\ [][NextParse]_vars

\* C14: for every SOAP response whose Body holds a Fault element (in the
\* SOAP 1.1 or 1.2 namespace or in none; with faultcode/faultstring or with
\* Code/Value and Reason/Text) parse_soap_response raises SoapFaultError
\* with that fault's code and reason, and it does so at the fault check,
\* before record extraction starts: no records are extracted or returned.
C14_FaultBeforeRecords ==
    fnIn.hasFault =>
        /\ fnPc \notin {"extract_records", "convert"}
        /\ fnPc = "done" =>
              fnOut = Some([kind |-> "fault", fault_code |-> fnIn.code,
                            fault_string |-> fnIn.reason])
        /\ fnOut = Some(parse_soap_response(fnIn.doc, "GetUsers")) <=> fnPc = "done"

\* C14 witness: a SOAP 1.2 fault without namespace, after a response element
\* in the same Body, was raised with its code and reason.
C14_Witness ==
    /\ fnPc = "done"
    /\ fnIn.hasFault
    /\ fnIn.shape = "1.2"
    /\ fnIn.faultNs = ""
    /\ fnIn.doc.root.children[2].children[1] = ResponseEl
    /\ fnOut = Some([kind |-> "fault", fault_code |-> fnIn.code, fault_string |-> fnIn.reason])

-----------------------------------------------------------------------------
(* map_fields there and back (SpecMapper) *)

MaxMappings == 2
MaxKeys == 2
FieldNames == {"customer_id", "CUST_ID", "name"}

\* sequences without repetition of at most n members of S
DistinctSeqs(S, n) ==
    {q \in UNION {[1..k -> S] : k \in 0..n} : \A i, j \in 1..Len(q) : i # j => q[i] # q[j]}

\* mapping sets with no duplicate normalizedName and no duplicate legacyName
MappingSets ==
    {m \in UNION {[1..k -> {FieldMapping(n, l) : n, l \in FieldNames}] : k \in 0..MaxMappings} :
        \A i, j \in 1..Len(m) :
            i # j => m[i].normalizedName # m[j].normalizedName
                     /\ m[i].legacyName # m[j].legacyName}

RecordOf(keys) == JDict([i \in 1..Len(keys) |-> Item(keys[i], JScalar(ToString(i)))])
MapperRecords == {RecordOf(keys) : keys \in DistinctSeqs(FieldNames, MaxKeys)}
MapperData ==
    MapperRecords
    \cup {JList(<<RecordOf(<<k1>>), RecordOf(<<k2>>)>>) : k1, k2 \in FieldNames}

InitMapper ==
    /\ AtRest
    /\ fnIn \in {[data |-> d, field_mappings |-> Some(m)] : d \in MapperData, m \in MappingSets}
    /\ fnOut = None
    /\ fnPc = "forward"

\* map_fields(data, M, reverse=False)
MapForward ==
    /\ fnPc = "forward"
    /\ fnPc' = "reverse"
    /\ fnOut' = Some(map_fields(fnIn.data, fnIn.field_mappings, FALSE))
    /\ UNCHANGED fnIn
    /\ RestUnchanged

\* map_fields(<the result>, M, reverse=True)
MapReverse ==
    /\ fnPc = "reverse"
    /\ fnPc' = "done"
    /\ fnOut' = Some(IF fnOut.v.ok THEN map_fields(fnOut.v.v, fnIn.field_mappings, TRUE)
                     ELSE fnOut.v)
    /\ UNCHANGED fnIn
    /\ RestUnchanged

NextMapper == MapForward \/ MapReverse

SpecMapper == InitMapper /\ [][NextMapper]_vars

\* equality of Python dicts and lists: a dict does not compare its order
SameRecord(x, y) ==
    /\ x.t = "dict" /\ y.t = "dict"
    /\ {x.items[i] : i \in 1..Len(x.items)} = {y.items[i] : i \in 1..Len(y.items)}
SameData(x, y) ==
    IF x.t = "list"
    THEN /\ y.t = "list"
         /\ Len(x.items) = Len(y.items)
         /\ \A i \in 1..Len(x.items) : SameRecord(x.items[i], y.items[i])
    ELSE SameRecord(x, y)

\* C15 (as claimed): field mapping is a true inverse: for every mapping set
\* M without duplicate normalizedName and without duplicate legacyName, and
\* every record or list of records r,
\* map(map(r, M, reverse=false), M, reverse=true) equals r.
C15_MapRoundTrip ==
    fnPc = "done" => fnOut.v.ok /\ SameData(fnOut.v.v, fnIn.data)

-----------------------------------------------------------------------------
(* resolve_path on its own (SpecResolve) *)

MaxTemplate == 3
TemplateTokens == {"/a", "{id}", "{orderId}", "{bad-name}"}
ParamValues == {"7", "{id}", "{orderId}"}
Templates == UNION {[1..k -> TemplateTokens] : k \in 0..MaxTemplate}
ParamDicts == UNION {[S -> ParamValues] : S \in SUBSET {"id", "orderId"}}

InitResolve ==
    /\ AtRest
    /\ fnIn \in {[path_template |-> t, params |-> p] : t \in Templates, p \in ParamDicts}
    /\ fnOut = None
    /\ fnPc = "call"

ResolvePath ==
    /\ fnPc = "call"
    /\ fnPc' = "done"
    /\ fnOut' = Some(resolve_path(fnIn.path_template, fnIn.params))
    /\ UNCHANGED fnIn
    /\ RestUnchanged

NextResolve == ResolvePath

SpecResolve == InitResolve /\ [][NextResolve]_vars

\* the placeholders of a template: the tokens {name} with name made of word
\* characters
IsPlaceholder(tok) == tok \in {"{id}", "{orderId}"}
NameIn(tok) == IF tok = "{id}" THEN "id" ELSE "orderId"

\* C16 (as claimed): resolve fails if and only if some {name} placeholder of
\* the template has no entry in params; otherwise it returns the template
\* with every occurrence of every placeholder replaced by its own parameter
\* value and all other text unchanged, for every parameter value, also one
\* that itself contains '{' and '}'.
C16_ResolveExact ==
    fnPc = "done" =>
        LET t == fnIn.path_template
            missing == \E i \in 1..Len(t) :
                          IsPlaceholder(t[i]) /\ NameIn(t[i]) \notin DOMAIN fnIn.params
        IN /\ ~fnOut.v.ok <=> missing
           /\ fnOut.v.ok =>
                 fnOut.v.path = [i \in 1..Len(t) |->
                                    IF IsPlaceholder(t[i]) THEN fnIn.params[NameIn(t[i])]
                                    ELSE t[i]]

-----------------------------------------------------------------------------
(* unwrap_response on its own: applied twice (SpecUnwrapTwice) and        *)
(* statement by statement (SpecUnwrap)                                     *)

MaxNest == 11
Payloads ==
    {JScalar("5"), JList(<<>>), JList(<<Rec>>), Rec,
     JDict(<<Item("data", JScalar("x")), Item("total", JScalar("1"))>>)}
WrapperKinds == {"data", "user", "Results"}

\* one wrapper of the kind around a value: a single-key dict, or for
\* "Results" a dict that has other keys too
Wrap(kind, value) ==
    IF kind = "Results"
    THEN JDict(<<Item("total", JScalar("1")), Item("Results", value)>>)
    ELSE JDict(<<Item(kind, value)>>)
RECURSIVE Nest(_, _, _)
Nest(kind, n, value) == IF n = 0 THEN value ELSE Wrap(kind, Nest(kind, n - 1, value))

\* nest is the number of dicts around a list or dict: the dict right around
\* a scalar payload wraps nothing
UnwrapInputs ==
    {[data |-> Nest(kind, n, payload), kind |-> kind, wrappers |-> n,
      nest |-> IF payload.t = "scalar" /\ n > 0 THEN n - 1 ELSE n,
      payload |-> payload, cyclic |-> FALSE] :
        kind \in WrapperKinds, n \in 0..MaxNest, payload \in Payloads}
    \cup {[data |-> Wrap(kind, JRef), kind |-> kind, wrappers |-> 1, nest |-> 1,
            payload |-> JRef, cyclic |-> TRUE] :
            kind \in WrapperKinds}

InitUnwrapTwice ==
    /\ AtRest
    /\ fnIn \in UnwrapInputs
    /\ ~fnIn.cyclic
    /\ fnOut = None
    /\ fnPc = "once"

UnwrapOnce ==
    /\ fnPc = "once"
    /\ fnPc' = "twice"
    /\ fnOut' = Some([once |-> unwrap_response(fnIn.data)])
    /\ UNCHANGED fnIn
    /\ RestUnchanged

UnwrapTwice ==
    /\ fnPc = "twice"
    /\ fnPc' = "done"
    /\ fnOut' = Some([once |-> fnOut.v.once, twice |-> unwrap_response(fnOut.v.once)])
    /\ UNCHANGED fnIn
    /\ RestUnchanged

NextUnwrapTwice == UnwrapOnce \/ UnwrapTwice

SpecUnwrapTwice == InitUnwrapTwice /\ [][NextUnwrapTwice]_vars

\* C17: unwrap is idempotent on every value built from wrapper dicts nested
\* up to depth 10: unwrap(unwrap(x)) = unwrap(x).
C17_UnwrapIdempotent ==
    (fnPc = "done" /\ fnIn.nest <= max_depth) => fnOut.v.twice = fnOut.v.once

\* C17 witness: ten wrappers around a list were unwrapped to the list, and
\* unwrapping the list again gave the list.
C17_Witness ==
    /\ fnPc = "done"
    /\ fnIn.nest = max_depth
    /\ fnIn.payload = JList(<<Rec>>)
    /\ fnOut.v.once = JList(<<Rec>>)
    /\ fnOut.v.twice = JList(<<Rec>>)

InitUnwrap ==
    /\ AtRest
    /\ fnIn \in UnwrapInputs
    /\ fnOut = None
    /\ fnPc = "enter"

\* lines 45-52: a value that is not a dict is returned at once
UnwrapEnter ==
    /\ fnPc = "enter"
    /\ fnOut' = Some([current |-> fnIn.data, depth |-> 0])
    /\ fnPc' = IF fnIn.data.t # "dict" THEN "done" ELSE "loop"
    /\ UNCHANGED fnIn
    /\ RestUnchanged

\* mutant of UnwrapDescend: the depth counter is tested against 12
UnwrapDescend_late ==
    /\ fnPc = "loop"
    /\ fnOut.v.current.t = "dict" /\ fnOut.v.depth < max_depth + 2
    /\ UnwrapStep(fnOut.v.current, fnIn.data).some
    /\ fnOut' = Some([current |-> UnwrapStep(fnOut.v.current, fnIn.data).v,
                      depth |-> fnOut.v.depth + 1])
    /\ UNCHANGED <<fnIn, fnPc>>
    /\ RestUnchanged

\* lines 54-93: one pass of the loop that descends
UnwrapDescend ==
    /\ fnPc = "loop"
    /\ fnOut.v.current.t = "dict" /\ fnOut.v.depth < max_depth
    /\ UnwrapStep(fnOut.v.current, fnIn.data).some
    /\ fnOut' = Some([current |-> UnwrapStep(fnOut.v.current, fnIn.data).v,
                      depth |-> fnOut.v.depth + 1])
    /\ UNCHANGED <<fnIn, fnPc>>
    /\ RestUnchanged

\* lines 54, 95-101: the loop ends (not a dict, depth reached, or nothing to
\* descend into) and current is returned
UnwrapReturn ==
    /\ fnPc = "loop"
    /\ \/ fnOut.v.current.t # "dict"
       \/ fnOut.v.depth >= max_depth
       \/ ~UnwrapStep(fnOut.v.current, fnIn.data).some
    /\ fnPc' = "done"
    /\ UNCHANGED <<fnIn, fnOut>>
    /\ RestUnchanged

NextUnwrap == UnwrapEnter \/ UnwrapDescend \/ UnwrapReturn

SpecUnwrap == InitUnwrap /\ [][NextUnwrap]_vars /\ WF_vars(NextUnwrap)

\* the descents an input allows
Descents(in) ==
    IF in.cyclic THEN max_depth
    ELSE Min({max_depth, in.nest})

\* C18: unwrap terminates on every input, also on dicts nested deeper than
\* 10 levels and on self-referential dicts: it descends at most 10 times and
\* returns the value reached, and it returns lists and scalars unchanged
\* without descending.
C18_UnwrapTerminates ==
    /\ <>(fnPc = "done")
    /\ [](fnOut.some => fnOut.v.depth <= max_depth)
    /\ [](fnPc = "done" =>
            /\ fnOut.v.depth = Descents(fnIn)
            /\ fnIn.data.t # "dict" => fnOut.v = [current |-> fnIn.data, depth |-> 0]
            /\ ~fnIn.cyclic => fnOut.v.current =
                                  Nest(fnIn.kind, fnIn.wrappers - fnOut.v.depth, fnIn.payload)
            /\ fnIn.cyclic => fnOut.v.current = fnIn.data)

\* C18 witness: a self-referential dict was returned after ten descents.
C18_Witness ==
    /\ fnPc = "done"
    /\ fnIn.cyclic
    /\ fnOut.v.depth = max_depth
    /\ fnOut.v.current = fnIn.data

-----------------------------------------------------------------------------
(* infer_type_from_values on its own (SpecInfer) *)

TYPE_FLEXIBILITY ==
    [text |-> 100, string |-> 90, currency |-> 80, url |-> 70, email |-> 60,
     phone |-> 50, uuid |-> 40, datetime |-> 30, number |-> 20, boolean |-> 10,
     object |-> 5, array |-> 0]

\* Python values: py is the value's class.  A str carries the lexical facts
\* the checks below read: its length, the patterns it matches, whether it
\* holds a date separator, whether dateutil parses it, and whether float()
\* accepts it once stripped and freed of commas.
Py(class) == [py |-> class]
PyStr(text, len, matches) == [py |-> "str", text |-> text, len |-> len, matches |-> matches]

_is_currency(value) == "CURRENCY_PATTERN" \in value.matches
_is_email(value) == "EMAIL_PATTERN" \in value.matches
_is_uuid(value) == "UUID_PATTERN" \in value.matches
_is_url(value) == "URL_PATTERN" \in value.matches
_is_datetime(value) ==
    IF "separator" \notin value.matches THEN FALSE ELSE "date_parser" \in value.matches

try_coerce_to_number(value) ==
    IF value.py \in {"int", "float"} THEN value
    ELSE IF value.py # "str" THEN value
    ELSE IF "float" \in value.matches
         THEN (IF "whole" \in value.matches THEN Py("int") ELSE Py("float"))
         ELSE value

infer_field_type(value) ==
    IF value.py = "NoneType" THEN "string"
    ELSE IF value.py = "bool" THEN "boolean"
    ELSE IF value.py \in {"int", "float"} THEN "number"
    ELSE IF value.py = "dict" THEN "object"
    ELSE IF _is_currency(value) THEN "currency"
    ELSE IF _is_email(value) THEN "email"
    ELSE IF _is_datetime(value) THEN "datetime"
    ELSE IF _is_uuid(value) THEN "uuid"
    ELSE IF _is_url(value) THEN "url"
    ELSE IF value.len > 100 THEN "text"
    ELSE IF try_coerce_to_number(value).py \in {"int", "float"} THEN "number"
    ELSE "string"

Flexibility(t) == IF t \in DOMAIN TYPE_FLEXIBILITY THEN TYPE_FLEXIBILITY[t] ELSE 0

infer_type_from_values_least(values) ==
    LET non_null_values == SelectSeq(values, LAMBDA v : v.py # "NoneType")
        types == [i \in 1..Len(non_null_values) |-> infer_field_type(non_null_values[i])]
        unique_types == {types[i] : i \in 1..Len(types)}
    IN IF non_null_values = <<>> THEN "string"
       ELSE IF Cardinality(unique_types) = 1 THEN types[1]
       ELSE CHOOSE t \in unique_types :
                \A u \in unique_types : Flexibility(t) <= Flexibility(u)

infer_type_from_values(values) ==
    LET non_null_values == SelectSeq(values, LAMBDA v : v.py # "NoneType")
        types == [i \in 1..Len(non_null_values) |-> infer_field_type(non_null_values[i])]
        unique_types == {types[i] : i \in 1..Len(types)}
    IN IF non_null_values = <<>> THEN "string"
       ELSE IF Cardinality(unique_types) = 1 THEN types[1]
       ELSE CHOOSE t \in unique_types :
                \A u \in unique_types : Flexibility(u) <= Flexibility(t)

MaxSamples == 3
SampleStrings ==
    {PyStr("abc", 3, {}),
     PyStr("12", 2, {"float", "whole"}),
     PyStr("1,234.5", 7, {"float"}),
     PyStr("test@example.com", 16, {"EMAIL_PATTERN"}),
     PyStr("2024-01-15", 10, {"separator", "date_parser"}),
     PyStr("$5", 2, {"CURRENCY_PATTERN"}),
     PyStr("550e8400-e29b-41d4-a716-446655440000", 36, {"UUID_PATTERN", "separator"}),
     PyStr("https://x.io", 12, {"URL_PATTERN", "separator"}),
     PyStr("aaa...a", 101, {})}
SampleValues == {Py(c) : c \in {"NoneType", "int", "float", "bool", "dict"}} \cup SampleStrings
SampleLists == UNION {[1..k -> SampleValues] : k \in 0..MaxSamples}

InitInfer ==
    /\ AtRest
    /\ fnIn \in {[values |-> l] : l \in SampleLists}
    /\ fnOut = None
    /\ fnPc = "call"

InferTypeFromValues ==
    /\ fnPc = "call"
    /\ fnPc' = "done"
    /\ fnOut' = Some(infer_type_from_values(fnIn.values))
    /\ UNCHANGED fnIn
    /\ RestUnchanged

NextInfer == InferTypeFromValues

SpecInfer == InitInfer /\ [][NextInfer]_vars

HasInt(values) == \E i \in 1..Len(values) : values[i].py = "int"
IsNonNumericStr(v) == v.py = "str" /\ "float" \notin v.matches
HasNonNumericStr(values) == \E i \in 1..Len(values) : IsNonNumericStr(values[i])

\* C19 (as claimed): for every list of sample values that contains at least
\* one integer and at least one non-numeric string (nulls allowed),
\* infer_type_from_values returns "string".
C19_MixedIsString ==
    (fnPc = "done" /\ HasInt(fnIn.values) /\ HasNonNumericStr(fnIn.values))
        => fnOut.v = "string"

\* C19 (amended): for every list that contains at least one integer and at
\* least one non-numeric string, infer_type_from_values returns the tag of
\* the highest flexibility rank among the tags of the non-null values; the
\* result is "string" exactly when some value is tagged string and none is
\* tagged text.
C19_MostFlexibleTag ==
    (fnPc = "done" /\ HasInt(fnIn.values) /\ HasNonNumericStr(fnIn.values)) =>
        LET values == fnIn.values
            tags == {infer_field_type(values[i]) :
                        i \in {j \in 1..Len(values) : values[j].py # "NoneType"}}
        IN /\ fnOut.v \in tags
           /\ \A u \in tags : TYPE_FLEXIBILITY[u] <= TYPE_FLEXIBILITY[fnOut.v]
           /\ fnOut.v = "string" <=> ("string" \in tags /\ "text" \notin tags)

\* an integer, a null and an e-mail address: the result is "email"
C19_Witness ==
    /\ fnPc = "done"
    /\ HasInt(fnIn.values)
    /\ HasNonNumericStr(fnIn.values)
    /\ \E i \in 1..Len(fnIn.values) : fnIn.values[i].py = "NoneType"
    /\ fnOut.v = "email"

-----------------------------------------------------------------------------
(* detect_primary_key, statement by statement (SpecDetect).  A field name  *)
(* is the sequence of its characters.                                      *)

LowercaseLetters ==
    {"a", "b", "c", "d", "e", "f", "g", "h", "i", "j", "k", "l", "m",
     "n", "o", "p", "q", "r", "s", "t", "u", "v", "w", "x", "y", "z"}
ToLower ==
    [A |-> "a", B |-> "b", C |-> "c", D |-> "d", E |-> "e", F |-> "f", G |-> "g", H |-> "h", I |-> "i", J |-> "j", K |-> "k", L |-> "l", M |-> "m", N |-> "n", O |-> "o", P |-> "p", Q |-> "q", R |-> "r", S |-> "s", T |-> "t", U |-> "u", V |-> "v", W |-> "w", X |-> "x", Y |-> "y", Z |-> "z"]
UppercaseLetters == DOMAIN ToLower
\* str.lower()
str_lower(name) ==
    [i \in 1..Len(name) |-> IF name[i] \in UppercaseLetters THEN ToLower[name[i]] ELSE name[i]]

\* (?:^|_|-|(?<=[a-z]))word(?=$|_|-|(?=[A-Z])); the patterns written without
\* the two camelCase alternatives have camel = FALSE
Pattern(word, camel) == [word |-> word, camel |-> camel]
PRIMARY_KEY_PATTERNS ==
    <<Pattern(<<"i", "d">>, TRUE),
      Pattern(<<"k", "e", "y">>, TRUE),
      Pattern(<<"c", "o", "d", "e">>, TRUE),
      Pattern(<<"n", "u", "m", "b", "e", "r">>, TRUE),
      Pattern(<<"u", "u", "i", "d">>, TRUE),
      Pattern(<<"g", "u", "i", "d">>, TRUE),
      Pattern(<<"p", "k">>, TRUE),
      Pattern(<<"p", "r", "i", "m", "a", "r", "y", "_", "k", "e", "y">>, FALSE),
      Pattern(<<"n", "o">>, TRUE),
      Pattern(<<"n", "u", "m">>, TRUE),
      Pattern(<<"s", "e", "q">>, TRUE),
      Pattern(<<"r", "e", "c", "i", "d">>, FALSE),
      Pattern(<<"r", "e", "c", "o", "r", "d", "_", "i", "d">>, FALSE),
      Pattern(<<"r", "o", "w", "i", "d">>, FALSE)>>
id_pattern == Pattern(<<"i", "d">>, TRUE)

\* re.search(pattern, s)
re_search(pattern, s) ==
    LET n == Len(pattern.word)
    IN \E i \in 1..(Len(s) - n + 1) :
          /\ SubSeq(s, i, i + n - 1) = pattern.word
          /\ \/ i = 1
             \/ s[i - 1] \in {"_", "-"}
             \/ pattern.camel /\ s[i - 1] \in LowercaseLetters
          /\ \/ i + n - 1 = Len(s)
             \/ s[i + n] \in {"_", "-"}
             \/ pattern.camel /\ s[i + n] \in UppercaseLetters

MatchesOther(field_name) ==
    \E k \in 2..Len(PRIMARY_KEY_PATTERNS) :
        re_search(PRIMARY_KEY_PATTERNS[k], str_lower(field_name))

_find_primary_key_candidates_flat(field_names) ==
    SelectSeq(field_names,
              LAMBDA f : re_search(id_pattern, str_lower(f)) \/ MatchesOther(f))

_find_primary_key_candidates(field_names) ==
    LET id_candidates ==
            SelectSeq(field_names, LAMBDA f : re_search(id_pattern, str_lower(f)))
    IN IF id_candidates # <<>> THEN id_candidates
       ELSE SelectSeq(field_names, MatchesOther)

\* what the OpenAI call does: it raises, refuses, returns something that
\* cannot be parsed, or returns a parsed answer with a field (or null) and a
\* confidence
LlmReplies(field_names) ==
    {[kind |-> k] : k \in {"raise", "refusal", "unparsed"}}
        \cup {[kind |-> "parsed", primary_key_field |-> f, confidence |-> c] :
                 f \in {None} \cup {Some(field_names[i]) : i \in 1..Len(field_names)}
                              \cup {Some(<<"o", "t", "h", "e", "r">>)},
                 c \in {"high", "low"}}

Raised == [raised |-> TRUE]
Returned(v) == [raised |-> FALSE, v |-> v]
InList(x, seq) == \E i \in 1..Len(seq) : seq[i] = x

_detect_primary_key_with_llm_trusting(field_names, openai_api_key, reply) ==
    IF ~openai_api_key THEN Returned(None)
    ELSE IF reply.kind = "raise" THEN Raised
    ELSE IF reply.kind = "parsed"
         THEN (IF ~reply.primary_key_field.some
               THEN Returned(None)
               ELSE IF InList(reply.primary_key_field.v, field_names)
                    THEN Returned(reply.primary_key_field)
                    ELSE Returned(None))
    ELSE Returned(None)

_detect_primary_key_with_llm(field_names, openai_api_key, reply) ==
    IF ~openai_api_key THEN Returned(None)
    ELSE IF reply.kind = "raise" THEN Raised
    ELSE IF reply.kind = "parsed"
         THEN (IF reply.confidence = "low" \/ ~reply.primary_key_field.some
               THEN Returned(None)
               ELSE IF InList(reply.primary_key_field.v, field_names)
                    THEN Returned(reply.primary_key_field)
                    ELSE Returned(None))
    ELSE Returned(None)

MaxFields == 3
SampleNames ==
    {<<"i", "d">>,
     <<"u", "s", "e", "r", "_", "i", "d">>,
     <<"u", "s", "e", "r", "I", "d">>,
     <<"d", "e", "p", "t", "_", "c", "o", "d", "e">>,
     <<"a", "p", "i", "_", "k", "e", "y">>,
     <<"n", "a", "m", "e">>,
     <<"v", "i", "d", "e", "o">>,
     <<"v", "a", "l", "i", "d">>,
     <<"u", "s", "e", "r", "I", "d", "V", "a", "l", "u", "e">>}
FieldLists == UNION {[1..k -> SampleNames] : k \in 0..MaxFields}
DefaultId == <<"i", "d">>

InitDetect ==
    /\ AtRest
    /\ fnIn \in {[field_names |-> l, openai_api_key |-> k] :
                    l \in FieldLists, k \in BOOLEAN}
    /\ fnOut = None
    /\ fnPc = "call"

\* detect_primary_key up to its return or its call of the LLM
DetectPrimaryKey ==
    /\ fnPc = "call"
    /\ LET field_names == fnIn.field_names
           candidates == _find_primary_key_candidates(field_names)
       IN IF field_names = <<>>
          THEN /\ fnPc' = "done"
               /\ fnOut' = Some([candidates |-> <<>>, llm_calls |-> 0, ret |-> DefaultId,
                                 reply |-> [kind |-> "none"]])
          ELSE IF Len(candidates) = 1
          THEN /\ fnPc' = "done"
               /\ fnOut' = Some([candidates |-> candidates, llm_calls |-> 0,
                                 ret |-> candidates[1], reply |-> [kind |-> "none"]])
          ELSE /\ fnPc' = "llm"
               /\ fnOut' = Some([candidates |-> candidates, llm_calls |-> 1,
                                 ret |-> <<>>, reply |-> [kind |-> "none"]])
    /\ UNCHANGED fnIn
    /\ RestUnchanged

\* the LLM call comes back; detect_primary_key takes its answer or falls back
LlmReturn ==
    /\ fnPc = "llm"
    /\ \E reply \in LlmReplies(fnIn.field_names) :
          LET llm_result == _detect_primary_key_with_llm(fnIn.field_names,
                                                         fnIn.openai_api_key, reply)
              candidates == fnOut.v.candidates
              fallback == IF Len(candidates) = 0 THEN DefaultId ELSE candidates[1]
          IN fnOut' = Some([fnOut.v EXCEPT !.reply = reply, !.ret =
                 IF /\ ~llm_result.raised
                    /\ llm_result.v.some
                    /\ InList(llm_result.v.v, fnIn.field_names)
                 THEN llm_result.v.v
                 ELSE fallback])
    /\ fnPc' = "done"
    /\ UNCHANGED fnIn
    /\ RestUnchanged

NextDetect == DetectPrimaryKey \/ LlmReturn

SpecDetect == InitDetect /\ [][NextDetect]_vars

\* the positions of the field names that match the id pattern
IdMatches(field_names) ==
    {i \in 1..Len(field_names) : re_search(id_pattern, str_lower(field_names[i]))}

CandidatePositions(field_names) ==
    IF IdMatches(field_names) # {} THEN IdMatches(field_names)
    ELSE {i \in 1..Len(field_names) : MatchesOther(field_names[i])}

\* the LLM is not configured, fails, or declines (low confidence)
OracleUnavailable ==
    \/ ~fnIn.openai_api_key
    \/ fnOut.v.reply.kind \in {"raise", "refusal", "unparsed"}
    \/ fnOut.v.reply.kind = "parsed" /\ fnOut.v.reply.confidence = "low"

BoundaryBetween(name, i) ==
    \/ i = 0
    \/ i = Len(name)
    \/ name[i] \in {"_", "-"}
    \/ name[i + 1] \in {"_", "-"}
    \/ name[i] \in LowercaseLetters /\ name[i + 1] \in UppercaseLetters
HasIdToken(name) ==
    \E i \in 1..(Len(name) - 1) :
        /\ SubSeq(str_lower(name), i, i + 1) = <<"i", "d">>
        /\ BoundaryBetween(name, i - 1)
        /\ BoundaryBetween(name, i + 1)

\* C22 (as claimed): a field name is an id candidate if and only if it
\* contains the token id (in any letter case) delimited on both sides by a
\* boundary (start or end of the name, '_', '-', or a lowercase-to-uppercase
\* transition); a name in which id is only an interior or trailing part of
\* a longer lowercase word is not a candidate.
C22_IdCandidateIffToken ==
    (fnPc # "call" /\ fnIn.field_names # <<>>) =>
        LET with_token == SelectSeq(fnIn.field_names, HasIdToken)
        IN fnOut.v.candidates =
              IF with_token # <<>> THEN with_token
              ELSE SelectSeq(fnIn.field_names, MatchesOther)

\* the field names that match one of PRIMARY_KEY_PATTERNS
PatternMatches(field_names) ==
    {field_names[i] : i \in {j \in 1..Len(field_names) :
        re_search(id_pattern, str_lower(field_names[j])) \/ MatchesOther(field_names[j])}}

\* C27 (as claimed): whenever at least one field name matches a primary-key
\* pattern, the field returned by detect_primary_key is one of the matching
\* names, whatever the LLM answers; and in every case the returned name is a
\* member of the supplied field names or the default "id".
C27_ReturnsACandidate ==
    fnPc = "done" =>
        /\ PatternMatches(fnIn.field_names) # {} =>
              fnOut.v.ret \in PatternMatches(fnIn.field_names)
        /\ \/ InList(fnOut.v.ret, fnIn.field_names)
           \/ fnOut.v.ret = <<"i", "d">>

-----------------------------------------------------------------------------
(* element_to_dict on its own (SpecConvert) *)

MaxAttrs == 2
SampleAttrs == {Attr("", "id", "7"), Attr("urn:a", "type", "x"), Attr("urn:b", "id", "8")}
\* the attributes of one element: no expanded name twice
AttrLists ==
    {l \in UNION {[1..k -> SampleAttrs] : k \in 0..MaxAttrs} :
        \A i, j \in 1..Len(l) : i # j => l[i] # l[j]}
LeafElements ==
    {WithAttrib(Leaf("name", text), a) : text \in {"Ann", " ", ""}, a \in AttrLists}
ConvertInputs ==
    LeafElements
        \cup {WithAttrib(El("", "User", text, kids), a) :
                 text \in {"", "note"}, a \in AttrLists,
                 kids \in {<<c>> : c \in LeafElements}
                          \cup {<<Leaf("name", "Ann"), Leaf("name", "Bob")>>}}

InitConvert ==
    /\ AtRest
    /\ fnIn \in {[element |-> e] : e \in ConvertInputs}
    /\ fnOut = None
    /\ fnPc = "call"

ElementToDict ==
    /\ fnPc = "call"
    /\ fnPc' = "done"
    /\ fnOut' = Some(element_to_dict(fnIn.element))
    /\ UNCHANGED fnIn
    /\ RestUnchanged

NextConvert == ElementToDict

SpecConvert == InitConvert /\ [][NextConvert]_vars

\* the converted value holds every attribute of the element under '@' and
\* the attribute's name without its namespace
HoldsAttributes(value, element) ==
    \A a \in 1..Len(element.attrib) :
        /\ value.t = "dict"
        /\ \E i \in 1..Len(value.items) : value.items[i].k = "@" \o element.attrib[a].k

\* C24 (as claimed): in element_to_dict every attribute of every converted
\* element, leaf or not, appears in that element's converted value under
\* the key '@' followed by the attribute name with its namespace stripped.
C24_AttributesKept ==
    fnPc = "done" =>
        /\ HoldsAttributes(fnOut.v, fnIn.element)
        /\ \A c \in 1..Len(fnIn.element.children) :
              HoldsAttributes(element_to_dict(fnIn.element.children[c]),
                              fnIn.element.children[c])

-----------------------------------------------------------------------------
(* The application with failing writes and a restart (SpecStore).         *)
(* set_config may fail where the operating system can fail it: in open(),  *)
(* which leaves the file alone, or in json.dump after open() has           *)
(* truncated it.                                                           *)

SetFailures == {"none", "open", "json.dump"}

StoreSetConfig(config, failure) ==
    /\ file' = IF failure = "none" THEN FFull(model_dump(config))
               ELSE IF failure = "open" THEN file
               ELSE FPartial
    /\ cache' = IF failure = "none" THEN Some(config) ELSE cache
    /\ lastSet' = IF failure = "none" THEN Some(config) ELSE lastSet
    /\ got' = IF failure = "none" THEN [op |-> "set_config", raised |-> FALSE]
              ELSE [op |-> "set_config", raised |-> TRUE, exc |-> "OSError",
                    cacheBefore |-> cache, fileBefore |-> file]
    /\ UNCHANGED <<callVars, threadVars, fnVars>>

StoreClearConfig ==
    /\ cache' = None
    /\ file' = FAbsent
    /\ lastSet' = None
    /\ got' = [op |-> "clear_config"]
    /\ UNCHANGED <<callVars, threadVars, fnVars>>

\* the process restarts: a new ProxyConfigManager on the same file
StoreRestart ==
    /\ cache' = None
    /\ got' = [op |-> "restart"]
    /\ UNCHANGED <<file, lastSet, callVars, threadVars, fnVars>>

\* get_resource_config(resource_name), called on the store directly
StoreGetResourceConfig(resource_name) ==
    LET g == get_resource_config(cache, file, resource_name)
    IN /\ cache' = g.cache
       /\ got' = IF g.kind = "raise"
                 THEN [op |-> "get_resource_config", raised |-> TRUE]
                 ELSE [op |-> "get_resource_config", raised |-> FALSE, value |-> g.value]
       /\ UNCHANGED <<file, lastSet, callVars, threadVars, fnVars>>

NextStore ==
    \/ \E config \in Configs, failure \in SetFailures : StoreSetConfig(config, failure)
    \/ StoreClearConfig
    \/ StoreRestart
    \/ GetConfig
    \/ IsConfigured
    \/ \E resource_name \in Resources : StoreGetResourceConfig(resource_name)
    \/ \E resource \in Resources, operation \in Operations, id \in Ids,
          body \in RequestBodies, query_params \in Queries :
             ForwardStart(resource, operation, id, body, query_params)
    \/ \E reply \in RestReplies \cup SoapReplies : BackendReply(reply)
    \/ ForwardReturn

SpecStore == Init /\ [][NextStore]_vars

\* what get_config hands back
Outcome(g) == IF g.kind = "raise" THEN [raised |-> TRUE] ELSE [raised |-> FALSE, value |-> g.value]

\* C26 (as claimed): a set_config call that fails (raises OSError) leaves
\* the store as it was before the call: get_config still returns the
\* previously stored configuration, the persisted file still holds that
\* configuration, and a store instance created afterwards on the same file
\* also reads it.
C26_FailedSetLeavesStore ==
    (got.op = "set_config" /\ got.raised) =>
        /\ Outcome(get_config(cache, file)) = Outcome(get_config(got.cacheBefore, got.fileBefore))
        /\ file = got.fileBefore
        /\ Outcome(get_config(None, file)) = Outcome(get_config(None, got.fileBefore))

-----------------------------------------------------------------------------
(* services/vercel_api_client.py: create_deployment, request by request    *)
(* (SpecCreate)                                                            *)

max_retries == 3

VercelAPIError(message) == [kind |-> "raise", exc |-> "VercelAPIError", message |-> message]

\* what the POST /v13/deployments can come to: a timeout, another
\* httpx.RequestError, or a response with a status and a body that is a
\* JSON object with or without "id" and "uid", or a text that is not JSON
DeployBodies ==
    {[json |-> TRUE, id |-> Some("dpl_1"), uid |-> None],
     [json |-> TRUE, id |-> None, uid |-> Some("dpl_2")],
     [json |-> TRUE, id |-> None, uid |-> None],
     [json |-> FALSE, text |-> ""],
     [json |-> FALSE, text |-> "<html>"]}
DeployReplies ==
    {[kind |-> "timeout"], [kind |-> "request_error"]}
        \cup {[kind |-> "response", status |-> st, body |-> b] :
                 st \in {200, 401, 403, 404, 429, 500}, b \in DeployBodies}

\* mutant of create_on_reply: a server error is retried like a 429
create_on_reply_retry_5xx(attempt, reply) ==
    IF reply.kind = "timeout"
    THEN IF attempt < max_retries - 1 THEN [kind |-> "continue"]
         ELSE VercelAPIError("Request timed out")
    ELSE IF reply.kind = "request_error"
    THEN IF attempt < max_retries - 1 THEN [kind |-> "continue"]
         ELSE VercelAPIError("Network error")
    ELSE IF reply.status = 429 \/ reply.status >= 500
    THEN IF attempt < max_retries - 1 THEN [kind |-> "continue"]
         ELSE VercelAPIError("Rate limit exceeded")
    ELSE IF reply.status = 401 THEN VercelAPIError("Invalid Vercel token")
    ELSE IF reply.status = 403 THEN VercelAPIError("Insufficient permissions")
    ELSE IF reply.status >= 400
    THEN IF ~reply.body.json /\ reply.body.text # ""
         THEN [kind |-> "raise", exc |-> "JSONDecodeError"]
         ELSE VercelAPIError("Deployment failed")
    ELSE IF ~reply.body.json THEN [kind |-> "raise", exc |-> "JSONDecodeError"]
    ELSE LET deployment_id == IF reply.body.id.some THEN reply.body.id ELSE reply.body.uid
         IN IF ~deployment_id.some THEN VercelAPIError("No deployment ID returned")
            ELSE [kind |-> "return", value |-> deployment_id.v]

\* one pass of the loop body (lines 64-107) on attempt number attempt
create_on_reply(attempt, reply) ==
    IF reply.kind = "timeout"
    THEN IF attempt < max_retries - 1 THEN [kind |-> "continue"]
         ELSE VercelAPIError("Request timed out")
    ELSE IF reply.kind = "request_error"
    THEN IF attempt < max_retries - 1 THEN [kind |-> "continue"]
         ELSE VercelAPIError("Network error")
    ELSE IF reply.status = 429
    THEN IF attempt < max_retries - 1 THEN [kind |-> "continue"]
         ELSE VercelAPIError("Rate limit exceeded")
    ELSE IF reply.status = 401 THEN VercelAPIError("Invalid Vercel token")
    ELSE IF reply.status = 403 THEN VercelAPIError("Insufficient permissions")
    ELSE IF reply.status >= 400
    THEN IF ~reply.body.json /\ reply.body.text # ""
         THEN [kind |-> "raise", exc |-> "JSONDecodeError"]
         ELSE VercelAPIError("Deployment failed")
    ELSE IF ~reply.body.json THEN [kind |-> "raise", exc |-> "JSONDecodeError"]
    ELSE LET deployment_id == IF reply.body.id.some THEN reply.body.id ELSE reply.body.uid
         IN IF ~deployment_id.some THEN VercelAPIError("No deployment ID returned")
            ELSE [kind |-> "return", value |-> deployment_id.v]

InitCreate ==
    /\ AtRest
    /\ fnIn = [op |-> "create_deployment"]
    /\ fnOut = [attempt |-> 0, replies |-> <<>>, outcome |-> None]
    /\ fnPc = "post"

\* lines 65-70 and what follows the reply
CreatePost ==
    /\ fnPc = "post"
    /\ fnOut.attempt < max_retries
    /\ \E reply \in DeployReplies :
          LET step == create_on_reply(fnOut.attempt, reply)
          IN IF step.kind = "continue"
             THEN /\ fnPc' = "sleep"
                  /\ fnOut' = [fnOut EXCEPT !.replies = Append(@, reply)]
             ELSE /\ fnPc' = "done"
                  /\ fnOut' = [fnOut EXCEPT !.replies = Append(@, reply),
                                            !.outcome = Some(step)]
    /\ UNCHANGED fnIn
    /\ RestUnchanged

\* asyncio.sleep(retry_delay * 2 ** attempt); continue
CreateSleep ==
    /\ fnPc = "sleep"
    /\ fnPc' = "post"
    /\ fnOut' = [fnOut EXCEPT !.attempt = @ + 1]
    /\ UNCHANGED fnIn
    /\ RestUnchanged

\* The raise after the loop (line 109) is never reached: the last attempt
\* returns or raises in every branch.
NextCreate == CreatePost \/ CreateSleep

SpecCreate == InitCreate /\ [][NextCreate]_vars /\ WF_vars(NextCreate)

\* the replies after which the claim allows another request
Retryable(reply) ==
    reply.kind \in {"timeout", "request_error"}
        \/ (reply.kind = "response" /\ reply.status = 429)
\* a reply that carries a deployment id
CarriesId(reply) ==
    /\ reply.kind = "response"
    /\ reply.status < 400
    /\ reply.body.json
    /\ (reply.body.id.some \/ reply.body.uid.some)

CreateSafe ==
    LET replies == fnOut.replies
        n == Len(replies)
    IN /\ n <= 3
       /\ \A k \in 1..(n - 1) : Retryable(replies[k])
       /\ fnPc # "done" => ~fnOut.outcome.some /\ \A k \in 1..n : Retryable(replies[k])
       /\ fnPc = "done" =>
             /\ n >= 1
             /\ Retryable(replies[n]) => n = 3
             /\ IF CarriesId(replies[n])
                THEN /\ fnOut.outcome.v.kind = "return"
                     /\ fnOut.outcome.v.value \in
                            {x.v : x \in {replies[n].body.id, replies[n].body.uid} \ {None}}
                ELSE fnOut.outcome.v.kind = "raise"

\* C28: create_deployment sends at most 3 deployment requests per call and
\* always terminates; it sends another request only after a 429 status, a
\* timeout or a network error on an attempt that is not the last; a 401, a
\* 403, any other status >= 400, or a reply without a deployment id ends the
\* call at once with an error and is never retried; the first reply carrying
\* a deployment id ends the call with that id.
C28_CreateBoundedRetries == <>(fnPc = "done") /\ []CreateSafe

\* two retried failures and then a rate limit on the third and last request
C28_Witness ==
    /\ fnPc = "done"
    /\ Len(fnOut.replies) = 3
    /\ fnOut.replies[1].kind = "timeout"
    /\ fnOut.replies[2].kind = "request_error"
    /\ fnOut.replies[3].kind = "response"
    /\ fnOut.replies[3].status = 429
    /\ fnOut.outcome.v.kind = "raise"

\* ------------------------------------------------------------------
\* deploy_full_stack (services/vercel_deployer.py) step by step: the token
\* check, the proxy deployment and its polling, the frontend deployment and
\* its polling.  The Vercel API is the environment: each request draws its
\* reply.

MaxPolls == 2

DeploymentResult(success, error, step_completed) ==
    [success |-> success, frontend_url |-> None, proxy_url |-> None,
     frontend_deployment_id |-> None, proxy_deployment_id |-> None,
     error |-> error, step_completed |-> step_completed]

Returns(value) == [kind |-> "return", value |-> value]

\* GET /v2/user: any exception, or a response with a status
TokenReplies ==
    {[kind |-> "request_error"]}
        \cup {[kind |-> "response", status |-> st] : st \in {200, 401, 403}}

validate_token(reply) == reply.kind = "response" /\ reply.status = 200

\* GET /v13/deployments/{id}: a network error, or a response whose body is a
\* JSON object (readyState and url may be missing) or not JSON at all
StatusBodies ==
    {[json |-> TRUE, readyState |-> Some("READY"), url |-> Some("app.vercel.app"), error |-> None],
     [json |-> TRUE, readyState |-> Some("READY"), url |-> None, error |-> None],
     [json |-> TRUE, readyState |-> Some("ERROR"), url |-> None, error |-> None],
     [json |-> TRUE, readyState |-> Some("ERROR"), url |-> None, error |-> Some("build failed")],
     [json |-> TRUE, readyState |-> Some("CANCELED"), url |-> None, error |-> None],
     [json |-> TRUE, readyState |-> Some("BUILDING"), url |-> None, error |-> None],
     [json |-> TRUE, readyState |-> None, url |-> None, error |-> None],
     [json |-> FALSE]}
StatusReplies ==
    {[kind |-> "request_error"]}
        \cup {[kind |-> "response", status |-> st, body |-> b] :
                 st \in {200, 500}, b \in StatusBodies}

get_deployment_status(reply) ==
    IF reply.kind = "request_error" THEN VercelAPIError("Network error")
    ELSE IF reply.status >= 400 THEN VercelAPIError("Status check failed")
    ELSE IF ~reply.body.json THEN [kind |-> "raise", exc |-> "JSONDecodeError"]
    ELSE Returns([state |-> IF reply.body.readyState.some
                           THEN reply.body.readyState.v ELSE "UNKNOWN",
                 url |-> reply.body.url,
                 ready_state |-> reply.body.readyState,
                 error |-> reply.body.error])

\* one pass of the loop of wait_for_deployment; timed_out is the clock test
wait_for_deployment(timed_out, reply) ==
    IF timed_out THEN VercelAPIError("Deployment timed out after 300 seconds")
    ELSE LET got_status == get_deployment_status(reply)
         IN IF got_status.kind = "raise" THEN got_status
            ELSE LET status == got_status.value
                 IN IF status.state = "READY" THEN Returns(status)
                    ELSE IF status.state = "ERROR"
                    THEN VercelAPIError(IF status.error.some
                                        THEN "Deployment failed: " \o status.error.v
                                        ELSE "Deployment failed")
                    ELSE IF status.state = "CANCELED"
                    THEN VercelAPIError("Deployment was canceled")
                    ELSE [kind |-> "continue"]

\* what a call of create_deployment can come to
CreateOutcomes ==
    {create_on_reply(attempt, reply) :
        attempt \in 0..(max_retries - 1), reply \in DeployReplies}
        \ {[kind |-> "continue"]}

\* _deploy_proxy after wait_for_deployment returned (lines 124-145)
_deploy_proxy(deployment_id, status) ==
    IF status.state # "READY"
    THEN [DeploymentResult(FALSE,
              Some("Proxy deployment failed with state: " \o status.state), "none")
            EXCEPT !.proxy_deployment_id = Some(deployment_id)]
    ELSE IF ~status.url.some \/ status.url.v = ""
    THEN [DeploymentResult(FALSE, Some("No URL returned for proxy deployment"), "none")
            EXCEPT !.proxy_deployment_id = Some(deployment_id)]
    ELSE [DeploymentResult(TRUE, None, "proxy")
            EXCEPT !.proxy_url = Some("https://" \o status.url.v),
                   !.proxy_deployment_id = Some(deployment_id)]

\* _deploy_frontend after wait_for_deployment returned (lines 187-208)
_deploy_frontend(deployment_id, status) ==
    IF status.state # "READY"
    THEN [DeploymentResult(FALSE,
              Some("Frontend deployment failed with state: " \o status.state), "none")
            EXCEPT !.frontend_deployment_id = Some(deployment_id)]
    ELSE IF ~status.url.some \/ status.url.v = ""
    THEN [DeploymentResult(FALSE, Some("No URL returned for frontend deployment"), "none")
            EXCEPT !.frontend_deployment_id = Some(deployment_id)]
    ELSE [DeploymentResult(TRUE, None, "frontend")
            EXCEPT !.frontend_url = Some("https://" \o status.url.v),
                   !.frontend_deployment_id = Some(deployment_id)]

\* the except clause of _deploy_proxy and of _deploy_frontend: a
\* VercelAPIError becomes a failed result, anything else goes on up
_deploy_except(raised) ==
    IF raised.exc = "VercelAPIError"
    THEN Returns(DeploymentResult(FALSE, Some(raised.message), "none"))
    ELSE raised

\* deploy_full_stack when the token is not valid (lines 44-49)
deploy_invalid_token == DeploymentResult(FALSE, Some("Invalid Vercel token"), "none")

\* deploy_full_stack when the proxy step failed (lines 54-60)
deploy_proxy_failed(proxy_result) ==
    [DeploymentResult(FALSE,
         Some("Proxy deployment failed: " \o proxy_result.error.v), "none")
       EXCEPT !.proxy_deployment_id = proxy_result.proxy_deployment_id]

\* deploy_full_stack after the frontend step (lines 70-88)
deploy_after_frontend(proxy_result, frontend_result) ==
    IF ~frontend_result.success
    THEN [DeploymentResult(FALSE,
              Some("Frontend deployment failed: " \o frontend_result.error.v), "proxy")
            EXCEPT !.proxy_url = proxy_result.proxy_url,
                   !.proxy_deployment_id = proxy_result.proxy_deployment_id,
                   !.frontend_deployment_id = frontend_result.frontend_deployment_id]
    ELSE [DeploymentResult(TRUE, None, "complete")
            EXCEPT !.frontend_url = frontend_result.frontend_url,
                   !.proxy_url = proxy_result.proxy_url,
                   !.frontend_deployment_id = frontend_result.frontend_deployment_id,
                   !.proxy_deployment_id = proxy_result.proxy_deployment_id]

\* mutant of deploy_full_stack_except: only VercelAPIError is caught
deploy_full_stack_except_api_only(raised) ==
    IF raised.exc = "VercelAPIError"
    THEN Returns(DeploymentResult(FALSE, Some(raised.message), "none"))
    ELSE raised

\* the except clauses of deploy_full_stack (lines 90-101)
deploy_full_stack_except(raised) ==
    IF raised.exc = "VercelAPIError"
    THEN Returns(DeploymentResult(FALSE, Some(raised.message), "none"))
    ELSE Returns(DeploymentResult(FALSE, Some("Unexpected error: " \o raised.exc), "none"))

NoDeployment == [id |-> None, state |-> "NONE", url |-> None]

InitDeploy ==
    /\ AtRest
    /\ fnIn = [op |-> "deploy_full_stack"]
    /\ fnOut = [is_valid |-> None, created |-> <<>>, polls |-> 0,
                proxy |-> NoDeployment, frontend |-> NoDeployment,
                proxy_result |-> None, outcome |-> None]
    /\ fnPc = "validate"

\* the outcome of deploy_full_stack once a step has returned or raised
Finish(out, step) ==
    [out EXCEPT !.outcome =
        Some(IF step.kind = "raise" THEN deploy_full_stack_except(step) ELSE step)]

\* step 1 (lines 43-49)
DeployValidate ==
    /\ fnPc = "validate"
    /\ \E reply \in TokenReplies :
          LET is_valid == validate_token(reply)
              out == [fnOut EXCEPT !.is_valid = Some(is_valid)]
          IN IF ~is_valid
             THEN /\ fnOut' = Finish(out, Returns(deploy_invalid_token))
                  /\ fnPc' = "done"
             ELSE /\ fnOut' = out
                  /\ fnPc' = "proxy_create"
    /\ UNCHANGED fnIn
    /\ RestUnchanged

\* _deploy_proxy up to create_deployment (lines 111-119)
DeployProxyCreate ==
    /\ fnPc = "proxy_create"
    /\ \E created \in CreateOutcomes :
          LET out == [fnOut EXCEPT !.created = Append(@, "proxy")]
          IN IF created.kind = "return"
             THEN /\ fnOut' = [out EXCEPT !.proxy.id = Some(created.value),
                                          !.proxy.state = "QUEUED", !.polls = 0]
                  /\ fnPc' = "proxy_wait"
             ELSE LET proxy_result == _deploy_except(created)
                  IN /\ fnOut' = Finish(out,
                                    IF proxy_result.kind = "raise" THEN proxy_result
                                    ELSE Returns(deploy_proxy_failed(proxy_result.value)))
                     /\ fnPc' = "done"
    /\ UNCHANGED fnIn
    /\ RestUnchanged

\* one poll of the proxy deployment and the rest of _deploy_proxy (122-152)
DeployProxyPoll ==
    /\ fnPc = "proxy_wait"
    /\ \E timed_out \in BOOLEAN, reply \in StatusReplies :
          /\ timed_out => fnOut.polls >= 1
          /\ fnOut.polls >= MaxPolls => timed_out
          /\ LET waited == wait_for_deployment(timed_out, reply)
                 seen == IF ~timed_out /\ get_deployment_status(reply).kind = "return"
                         THEN [fnOut EXCEPT
                                 !.proxy.state = get_deployment_status(reply).value.state,
                                 !.proxy.url = get_deployment_status(reply).value.url]
                         ELSE fnOut
             IN IF waited.kind = "continue"
                THEN /\ fnOut' = [seen EXCEPT !.polls = @ + 1]
                     /\ fnPc' = "proxy_wait"
                ELSE LET proxy_result ==
                             IF waited.kind = "raise" THEN _deploy_except(waited)
                             ELSE Returns(_deploy_proxy(fnOut.proxy.id.v, waited.value))
                     IN IF proxy_result.kind = "raise"
                        THEN /\ fnOut' = Finish(seen, proxy_result)
                             /\ fnPc' = "done"
                        ELSE IF ~proxy_result.value.success
                        THEN /\ fnOut' = Finish(seen,
                                            Returns(deploy_proxy_failed(proxy_result.value)))
                             /\ fnPc' = "done"
                        ELSE /\ fnOut' = [seen EXCEPT
                                             !.proxy_result = Some(proxy_result.value)]
                             /\ fnPc' = "frontend_create"
    /\ UNCHANGED fnIn
    /\ RestUnchanged

\* _deploy_frontend up to create_deployment (lines 164-182)
DeployFrontendCreate ==
    /\ fnPc = "frontend_create"
    /\ \E created \in CreateOutcomes :
          LET out == [fnOut EXCEPT !.created = Append(@, "frontend")]
          IN IF created.kind = "return"
             THEN /\ fnOut' = [out EXCEPT !.frontend.id = Some(created.value),
                                          !.frontend.state = "QUEUED", !.polls = 0]
                  /\ fnPc' = "frontend_wait"
             ELSE LET frontend_result == _deploy_except(created)
                  IN /\ fnOut' = Finish(out,
                                    IF frontend_result.kind = "raise" THEN frontend_result
                                    ELSE Returns(deploy_after_frontend(fnOut.proxy_result.v,
                                                                      frontend_result.value)))
                     /\ fnPc' = "done"
    /\ UNCHANGED fnIn
    /\ RestUnchanged

\* one poll of the frontend deployment and the rest of _deploy_frontend
\* (185-215), then lines 70-88 of deploy_full_stack
DeployFrontendPoll ==
    /\ fnPc = "frontend_wait"
    /\ \E timed_out \in BOOLEAN, reply \in StatusReplies :
          /\ timed_out => fnOut.polls >= 1
          /\ fnOut.polls >= MaxPolls => timed_out
          /\ LET waited == wait_for_deployment(timed_out, reply)
                 seen == IF ~timed_out /\ get_deployment_status(reply).kind = "return"
                         THEN [fnOut EXCEPT
                                 !.frontend.state = get_deployment_status(reply).value.state,
                                 !.frontend.url = get_deployment_status(reply).value.url]
                         ELSE fnOut
             IN IF waited.kind = "continue"
                THEN /\ fnOut' = [seen EXCEPT !.polls = @ + 1]
                     /\ fnPc' = "frontend_wait"
                ELSE LET frontend_result ==
                             IF waited.kind = "raise" THEN _deploy_except(waited)
                             ELSE Returns(_deploy_frontend(fnOut.frontend.id.v, waited.value))
                     IN /\ fnOut' = Finish(seen,
                                       IF frontend_result.kind = "raise" THEN frontend_result
                                       ELSE Returns(deploy_after_frontend(fnOut.proxy_result.v,
                                                                         frontend_result.value)))
                        /\ fnPc' = "done"
    /\ UNCHANGED fnIn
    /\ RestUnchanged

NextDeploy ==
    \/ DeployValidate
    \/ DeployProxyCreate
    \/ DeployProxyPoll
    \/ DeployFrontendCreate
    \/ DeployFrontendPoll

SpecDeploy == InitDeploy /\ [][NextDeploy]_vars

\* a deployment that a status poll has shown READY
ReachedReady(deployment) == deployment.state = "READY"

\* C29: in deploy_full_stack no deployment is created unless the token
\* validation succeeded; the frontend deployment is created only after the
\* proxy deployment has reached READY with a URL; the result has success
\* only when both deployments reached READY; and deploy_full_stack never
\* raises.
C29_StepsOrdered ==
    /\ fnOut.created # <<>> => fnOut.is_valid = Some(TRUE)
    /\ \A k \in 1..Len(fnOut.created) :
          fnOut.created[k] = "frontend" =>
             /\ k = 2
             /\ fnOut.created[1] = "proxy"
             /\ ReachedReady(fnOut.proxy)
             /\ fnOut.proxy.url.some
    /\ fnPc = "done" =>
          /\ fnOut.outcome.some
          /\ fnOut.outcome.v.kind = "return"
          /\ fnOut.outcome.v.value.success =>
                ReachedReady(fnOut.proxy) /\ ReachedReady(fnOut.frontend)

\* both deployments went through and the result says so
C29_Witness ==
    /\ fnPc = "done"
    /\ fnOut.outcome.v.kind = "return"
    /\ fnOut.outcome.v.value.success
    /\ fnOut.created = <<"proxy", "frontend">>
    /\ ReachedReady(fnOut.proxy)
    /\ ReachedReady(fnOut.frontend)

\* the frontend request came back with a body that is not JSON
C29_WitnessUnexpected ==
    /\ fnPc = "done"
    /\ fnOut.created = <<"proxy", "frontend">>
    /\ fnOut.outcome.v.kind = "return"
    /\ fnOut.outcome.v.value.error = Some("Unexpected error: JSONDecodeError")

====
